---- MODULE Spec2Model ----
(***************************************************************************)
(* Model of the contact-resolution crawler of src/company_scraper.py       *)
(* (class CompanyContactSpider).                                           *)
(*                                                                         *)
(* Strings are sequences of one-character strings, so that the validators, *)
(* cleaners and pattern matches of the source are computed character by    *)
(* character, as the source computes them.                                 *)
(***************************************************************************)
EXTENDS Integers, Sequences, FiniteSets, TLC

\* ------------------------------------------------------------------------
\* Characters and elementary string operations
\* ------------------------------------------------------------------------

Digits == {"0","1","2","3","4","5","6","7","8","9"}

Letters ==
    {"A","B","C","D","E","F","G","H","I","J","K","L","M",
     "N","O","P","Q","R","S","T","U","V","W","X","Y","Z",
     "a","b","c","d","e","f","g","h","i","j","k","l","m",
     "n","o","p","q","r","s","t","u","v","w","x","y","z"}

\* the lower-case letter of each upper-case letter
LowerOf ==
    [ A |-> "a", B |-> "b", C |-> "c", D |-> "d", E |-> "e", F |-> "f", G |-> "g",
      H |-> "h", I |-> "i", J |-> "j", K |-> "k", L |-> "l", M |-> "m", N |-> "n",
      O |-> "o", P |-> "p", Q |-> "q", R |-> "r", S |-> "s", T |-> "t", U |-> "u",
      V |-> "v", W |-> "w", X |-> "x", Y |-> "y", Z |-> "z" ]

\* str.lower() on one character
LowerChar(c) == IF c \in DOMAIN LowerOf THEN LowerOf[c] ELSE c

\* str.lower(); the concatenation with the empty sequence makes the result a
\* tuple, whose characters are computed once
Lower(s) == [i \in 1..Len(s) |-> LowerChar(s[i])] \o <<>>

\* Python's  sub in s
Contains(s, sub) ==
    \E i \in 0..(Len(s) - Len(sub)) :
        \A j \in 1..Len(sub) : s[i + j] = sub[j]

\* Python's  s.startswith(p)
StartsWith(s, p) ==
    /\ Len(p) <= Len(s)
    /\ \A j \in 1..Len(p) : s[j] = p[j]

\* Python's  s.endswith(p)
EndsWith(s, p) ==
    /\ Len(p) <= Len(s)
    /\ \A j \in 1..Len(p) : s[Len(s) - Len(p) + j] = p[j]

\* s[1:]
DropFirst(s) == IF Len(s) = 0 THEN <<>> ELSE Tail(s)

IsDigit(c) == c \in Digits

\* re.sub(r'[^\d]', '', s)
DigitsOnly(s) == SelectSeq(s, IsDigit)

\* a character removed by  re.sub(r'[\s\-()]', '', ...)
IsSeparator(c) == c \in {" ", "-", "(", ")"}

NotSeparator(c) == ~IsSeparator(c)

\* s.strip() for the blank character
RECURSIVE StripLeft(_)
StripLeft(s) == IF Len(s) > 0 /\ s[1] = " " THEN StripLeft(Tail(s)) ELSE s

RECURSIVE StripRight(_)
StripRight(s) ==
    IF Len(s) > 0 /\ s[Len(s)] = " " THEN StripRight(SubSeq(s, 1, Len(s) - 1)) ELSE s

Strip(s) == StripRight(StripLeft(s))

\* digit * n
Repeat(c, n) == [i \in 1..n |-> c]

\* ------------------------------------------------------------------------
\* Phone validation (validate_phone_number, clean_phone_number)
\* ------------------------------------------------------------------------

\* the length limits of a phone's digit string
MinPhoneDigits == 10

MaxPhoneDigits == 15

\* digit * 7
RepeatRun == 7

\* ascending[i:i+8], descending[i:i+8]
SequentialRun == 8

ascending == <<"0","1","2","3","4","5","6","7","8","9">>

descending == <<"9","8","7","6","5","4","3","2","1","0">>

\* validate_phone_number without its tests of repeated and sequential digits
validate_phone_number_no_runs(phone) ==
    LET digits_only == DigitsOnly(DropFirst(phone)) IN
    /\ StartsWith(phone, <<"+">>)
    /\ Len(digits_only) >= MinPhoneDigits
    /\ Len(digits_only) <= MaxPhoneDigits

validate_phone_number(phone) ==
    LET digits_only == DigitsOnly(DropFirst(phone)) IN
    /\ StartsWith(phone, <<"+">>)
    /\ Len(digits_only) >= MinPhoneDigits
    /\ Len(digits_only) <= MaxPhoneDigits
    /\ \A d \in Digits : ~Contains(digits_only, Repeat(d, RepeatRun))
    /\ \A i \in 0..(Len(ascending) - SequentialRun) :
          ~Contains(digits_only, SubSeq(ascending, i + 1, i + SequentialRun))
    /\ \A i \in 0..(Len(descending) - SequentialRun) :
          ~Contains(digits_only, SubSeq(descending, i + 1, i + SequentialRun))

\* clean_phone_number: "" (the empty sequence) when the number is refused
clean_phone_number(phone) ==
    IF Len(phone) = 0 THEN <<>>
    ELSE IF ~StartsWith(phone, <<"+">>) THEN <<>>
    ELSE LET cleaned == <<"+">> \o SelectSeq(Tail(phone), NotSeparator)
             digits_only == DigitsOnly(Tail(cleaned))
         IN  IF Len(digits_only) < MinPhoneDigits \/ Len(digits_only) > MaxPhoneDigits
             THEN <<>>
             ELSE IF validate_phone_number(cleaned) THEN cleaned ELSE <<>>

\* ------------------------------------------------------------------------
\* Email patterns and validation
\* ------------------------------------------------------------------------

\* [a-zA-Z0-9._%+-]
LocalChar(c) == c \in Letters \/ c \in Digits \/ c \in {".", "_", "%", "+", "-"}

\* [a-zA-Z0-9.-]
DomainChar(c) == c \in Letters \/ c \in Digits \/ c \in {".", "-"}

\* [a-zA-Z]
LetterChar(c) == c \in Letters

\* the last index of the longest run of characters of a class that starts at
\* index i (i - 1 when s[i] is not of the class): a greedy  [class]*
RunEnd(InClass(_), s, i) ==
    CHOOSE k \in (i - 1)..Len(s) :
        /\ \A j \in i..k : InClass(s[j])
        /\ (k = Len(s) \/ ~InClass(s[k + 1]))

\* The scan of re.findall, re.finditer and re.sub, on ends: ends[j] is the
\* index of the last character of the match that starts at index j, 0 when
\* the pattern does not match there. The scan takes the leftmost match and
\* goes on after its end. NextStart is the start of the leftmost match from
\* index i on, 0 when there is none.
NextStart(ends, i) ==
    IF \A j \in i..Len(ends) : ends[j] = 0 THEN 0
    ELSE CHOOSE b \in i..Len(ends) : ends[b] > 0 /\ \A c \in i..(b - 1) : ends[c] = 0

\* the <<first, last>> indexes of the matches from the match at b on
RECURSIVE SpansFrom(_, _)
SpansFrom(ends, b) ==
    IF b = 0 THEN <<>>
    ELSE <<<<b, ends[b]>>>> \o SpansFrom(ends, NextStart(ends, ends[b] + 1))

\* the <<first, last>> indexes of the matches, in the order of the scan
Spans(ends) == SpansFrom(ends, NextStart(ends, 1))

\* the matched texts
MatchTexts(s, spans) ==
    [k \in 1..Len(spans) |-> SubSeq(s, spans[k][1], spans[k][2])] \o <<>>

\* EMAIL_PATTERN  [a-zA-Z0-9._%+-]+@[a-zA-Z0-9.-]+\.[a-zA-Z]{2,}  matched at
\* index i: the index of the last character of the match, 0 when there is no
\* match. The local part is the whole run of local characters ('@' must
\* follow it); the domain is matched greedily and backtracks to the last
\* '.' of the domain run that two letters follow.
MinTldLetters == 2

\* the TLD: the letters after the last of the dots
EmailTldEnd(s, dots) ==
    IF dots = {} THEN 0
    ELSE RunEnd(LetterChar, s, (CHOOSE x \in dots : \A y \in dots : y <= x) + 1)

\* the domain run d0..de: its dots that enough letters follow
EmailDomainEnd(s, d0, de) ==
    EmailTldEnd(s, { k \in (d0 + 1)..de :
                       /\ s[k] = "."
                       /\ RunEnd(LetterChar, s, k + 1) >= k + MinTldLetters })

\* the local part i..le and the '@' after it
EmailLocalEnd(s, i, le) ==
    IF i > Len(s) \/ le < i \/ le + 1 > Len(s) THEN 0
    ELSE IF s[le + 1] # "@" THEN 0
    ELSE EmailDomainEnd(s, le + 2, RunEnd(DomainChar, s, le + 2))

MatchEmailAt(s, i) == EmailLocalEnd(s, i, RunEnd(LocalChar, s, i))

\* re.match(EMAIL_PATTERN, s): a match of a prefix of s
ReMatchEmail(s) == MatchEmailAt(s, 1) > 0

\* re.findall(EMAIL_PATTERN, s)
FindAllEmail(s) ==
    MatchTexts(s, Spans([j \in 1..Len(s) |-> MatchEmailAt(s, j)] \o <<>>))

\* the length limits of an email
MinEmailLen == 6

MaxEmailLen == 100

allowed_tlds ==
    { <<".","c","o","m">>,
      <<".","i","n">>,
      <<".","o","r","g">>,
      <<".","c","o",".","i","n">>,
      <<".","n","e","t">>,
      <<".","e","d","u">>,
      <<".","g","o","v">>,
      <<".","i","o">>,
      <<".","i","n","f","o">>,
      <<".","b","i","z">> }

\* the placeholder list of extract_emails_from_content
placeholders ==
    { <<"e","x","a","m","p","l","e",".","c","o","m">>,
      <<"y","o","u","r","d","o","m","a","i","n",".","c","o","m">>,
      <<"d","o","m","a","i","n",".","c","o","m">>,
      <<"e","m","a","i","l",".","c","o","m">>,
      <<"t","e","s","t",".","c","o","m">>,
      <<"s","o","m","e","o","n","e","@">>,
      <<"u","s","e","r","@">>,
      <<"n","a","m","e","@">>,
      <<"y","o","u","r","@">>,
      <<"i","n","f","o","@","e","x","a","m","p","l","e">>,
      <<"e","m","a","i","l","@">>,
      <<"t","e","s","t","@">> }

\* the shorter placeholder list of extract_from_schema, parse_indiamart,
\* parse_indiamart_company, parse_facebook_about and
\* extract_linkedin_specific_contact
short_placeholders ==
    { <<"e","x","a","m","p","l","e",".","c","o","m">>,
      <<"y","o","u","r","d","o","m","a","i","n",".","c","o","m">>,
      <<"d","o","m","a","i","n",".","c","o","m">>,
      <<"e","m","a","i","l",".","c","o","m">>,
      <<"s","o","m","e","o","n","e","@">>,
      <<"u","s","e","r","@">>,
      <<"n","a","m","e","@">>,
      <<"y","o","u","r","@">>,
      <<"i","n","f","o","@","e","x","a","m","p","l","e">> }

\* the TLD filter alone, without the list of placeholders
EmailLowerFilterTldOnly(low) == \E tld \in allowed_tlds : EndsWith(low, tld)

\* the TLD filter and the placeholder filter, on email.lower()
EmailLowerFilter(low) ==
    /\ \E tld \in allowed_tlds : EndsWith(low, tld)
    /\ ~\E p \in placeholders : Contains(low, p)

\* the three filters of extract_emails_from_content on one candidate
EmailFilter(email) ==
    /\ Len(email) >= MinEmailLen
    /\ Len(email) <= MaxEmailLen
    /\ EmailLowerFilter(Lower(email))

\* the filter used where the shorter placeholder list is applied alone
ShortPlaceholderFilter(email) ==
    ~\E p \in short_placeholders : Contains(Lower(email), p)

\* '@' in email and '.' in email.split('@')[1]
RECURSIVE SplitAt(_, _)
SplitAt(s, sep) ==
    IF ~\E i \in 1..Len(s) : s[i] = sep THEN <<s>>
    ELSE LET i == CHOOSE x \in 1..Len(s) :
                     s[x] = sep /\ \A y \in 1..(x - 1) : s[y] # sep
         IN  <<SubSeq(s, 1, i - 1)>> \o SplitAt(SubSeq(s, i + 1, Len(s)), sep)

MailtoCheck(email) ==
    /\ Contains(email, <<"@">>)
    /\ Contains(SplitAt(email, "@")[2], <<".">>)

\* link.replace('mailto:', '').split('?')[0].strip() on the address part
MailtoAddress(target) == Strip(SplitAt(target, "?")[1])


\* ------------------------------------------------------------------------
\* Obfuscated emails (OBFUSCATED_EMAIL_PATTERN, clean_obfuscated_email)
\* ------------------------------------------------------------------------

\* \s
IsSpace(c) == c \in {" ", "\n", "\t"}

NotSpace(c) == ~IsSpace(c)

\* s[i..] starts with tok
HasAt(s, i, tok) ==
    /\ i >= 1
    /\ i + Len(tok) - 1 <= Len(s)
    /\ \A j \in 1..Len(tok) : s[i + j - 1] = tok[j]

\* the bracketed spellings of '@' and of '.' in OBFUSCATED_EMAIL_PATTERN
AtBrackets == { <<"[","a","t","]">>, <<"(","a","t",")">>, <<"{","a","t","}">> }

DotBrackets == { <<"[","d","o","t","]">>, <<"(","d","o","t",")">>, <<"{","d","o","t","}">> }

\* the spellings replaced by clean_obfuscated_email (steps 1 and 2)
AtSubTokens == AtBrackets \cup { <<"@">> }

DotSubTokens == DotBrackets \cup { <<"[",".","]">>, <<"(",".",")">>, <<"(",")">> }

AtWord == <<"a","t">>

DotWord == <<"d","o","t">>

\* One alternation  \s*(tok1|tok2|...)  or  \s+word\s+  matched at index i:
\* the index of the last character consumed by the spelling itself and the
\* white space the alternative takes after it (0: no match). trailing says
\* whether the bracketed alternatives take the white space that follows them.
\* w is the end of the white space before the spelling, hit the bracketed
\* spellings found after it.
BracketEnd(s, e, trailing) == IF trailing THEN RunEnd(IsSpace, s, e + 1) ELSE e

WordEnd(s, i, w, word, after) ==
    IF /\ w >= i
       /\ HasAt(s, w + 1, word)
       /\ after <= Len(s)
       /\ IsSpace(s[after])
    THEN RunEnd(IsSpace, s, after)
    ELSE 0

SpellingAfter(s, i, w, hit, word, trailing) ==
    IF hit # {} THEN BracketEnd(s, w + Len(CHOOSE x \in hit : TRUE), trailing)
    ELSE WordEnd(s, i, w, word, w + Len(word) + 1)

SpellingFrom(s, i, w, brackets, word, trailing) ==
    SpellingAfter(s, i, w, { tok \in brackets : HasAt(s, w + 1, tok) }, word, trailing)

SpellingEnd(s, i, brackets, word, trailing) ==
    SpellingFrom(s, i, RunEnd(IsSpace, s, i), brackets, word, trailing)

\* OBFUSCATED_EMAIL_PATTERN matched at index i: the index of the last
\* character of the match, 0 when there is no match. The parts of the
\* pattern, from the last to the first: the TLD t0..te, the white space and
\* the TLD after the spelling of '.' that ends at xe, the domain run d0..de
\* and the spelling of '.', the white space and the domain after the
\* spelling of '@' that ends at ae, the local part i..le and the spelling
\* of '@'.
ObfuscatedTld(t0, te) == IF te < t0 + MinTldLetters - 1 THEN 0 ELSE te

ObfuscatedTldFrom(s, t0) == ObfuscatedTld(t0, RunEnd(LetterChar, s, t0))

ObfuscatedDot(s, xe) ==
    IF xe = 0 THEN 0 ELSE ObfuscatedTldFrom(s, RunEnd(IsSpace, s, xe + 1) + 1)

ObfuscatedDomain(s, d0, de) ==
    IF de < d0 THEN 0
    ELSE ObfuscatedDot(s, SpellingEnd(s, de + 1, DotBrackets, DotWord, FALSE))

ObfuscatedDomainFrom(s, d0) == ObfuscatedDomain(s, d0, RunEnd(DomainChar, s, d0))

ObfuscatedAt(s, ae) ==
    IF ae = 0 THEN 0 ELSE ObfuscatedDomainFrom(s, RunEnd(IsSpace, s, ae + 1) + 1)

ObfuscatedLocal(s, i, le) ==
    IF i > Len(s) \/ le < i THEN 0
    ELSE ObfuscatedAt(s, SpellingEnd(s, le + 1, AtBrackets, AtWord, FALSE))

MatchObfuscatedAt(s, i) == ObfuscatedLocal(s, i, RunEnd(LocalChar, s, i))

\* re.findall(OBFUSCATED_EMAIL_PATTERN, s)
FindAllObfuscated(s) ==
    MatchTexts(s, Spans([j \in 1..Len(s) |-> MatchObfuscatedAt(s, j)] \o <<>>))

\* s with the matches at spans replaced by repl, from index i on
RECURSIVE Replaced(_, _, _, _)
Replaced(s, i, spans, repl) ==
    IF spans = <<>> THEN SubSeq(s, i, Len(s))
    ELSE SubSeq(s, i, spans[1][1] - 1) \o <<repl>>
             \o Replaced(s, spans[1][2] + 1, Tail(spans), repl)

\* re.sub(spellings, repl, s)
SubSpellings(s, brackets, word, repl) ==
    Replaced(s, 1,
             Spans([j \in 1..Len(s) |-> SpellingEnd(s, j, brackets, word, TRUE)] \o <<>>),
             repl)

\* the last step of clean_obfuscated_email: the cleaned text is returned
\* when EMAIL_PATTERN matches a prefix of it
MatchedOrEmpty(cleaned) == IF ReMatchEmail(cleaned) THEN cleaned ELSE <<>>

\* clean_obfuscated_email (the second definition of the class, which is the
\* one Python keeps)
clean_obfuscated_email(email) ==
    IF Len(email) = 0 THEN <<>>
    ELSE MatchedOrEmpty(
             SelectSeq(SubSpellings(SubSpellings(email, AtSubTokens, AtWord, "@"),
                                    DotSubTokens, DotWord, "."),
                       NotSpace))

\* the elements of a sequence
Range(q) == { q[i] : i \in 1..Len(q) }

\* extract_obfuscated_email, as the set of its results
extract_obfuscated_email(content) ==
    { clean_obfuscated_email(m) : m \in Range(FindAllObfuscated(content)) }
        \ { <<>> }

\* extract_emails_from_content (the second definition of the class): the
\* set of the emails it returns; the order of the returned list is that of
\* list(set(...)), which the callers resolve
extract_emails_from_content(content) ==
    IF Len(content) = 0 THEN {}
    ELSE { e \in Range(FindAllEmail(content)) \cup extract_obfuscated_email(content) :
             EmailFilter(e) }


\* ------------------------------------------------------------------------
\* Phone extraction (PHONE_PATTERN, extract_phones_from_content)
\* ------------------------------------------------------------------------

\* [\d\s\-()]
PhoneChar(c) == IsDigit(c) \/ IsSpace(c) \/ c \in {"-", "(", ")"}

\* the repetition limits of PHONE_PATTERN  \+[\d\s\-()]{7,20}
MinPhoneTail == 7

MaxPhoneTail == 20

\* PHONE_PATTERN matched at index i: the index of the last character of the
\* match, 0 when there is no match. r is the end of the run of phone
\* characters after the '+', n the number of them the pattern takes.
PhoneTaken(i, n) == IF n >= MinPhoneTail THEN i + n ELSE 0

PhoneRun(i, r) == PhoneTaken(i, IF r - i > MaxPhoneTail THEN MaxPhoneTail ELSE r - i)

MatchPhoneAt(s, i) ==
    IF i > Len(s) \/ s[i] # "+" THEN 0
    ELSE PhoneRun(i, RunEnd(PhoneChar, s, i + 1))

\* re.findall(PHONE_PATTERN, s)
FindAllPhone(s) ==
    MatchTexts(s, Spans([j \in 1..Len(s) |-> MatchPhoneAt(s, j)] \o <<>>))

\* the sequences that list every element of a set once: the lists that
\* list(set(...)) can return
AllOrders(S) == { q \in [1..Cardinality(S) -> S] : Range(q) = S }

\* a list without its later duplicates, as the  "x not in list"  tests keep it
RECURSIVE Dedupe(_)
Dedupe(q) ==
    IF Len(q) = 0 THEN <<>>
    ELSE LET front == Dedupe(SubSeq(q, 1, Len(q) - 1)) IN
         IF q[Len(q)] \in Range(front) THEN front ELSE Append(front, q[Len(q)])

\* the concatenation of a sequence of sequences
RECURSIVE Flatten(_)
Flatten(qq) == IF Len(qq) = 0 THEN <<>> ELSE qq[1] \o Flatten(Tail(qq))

\* [f(x) for x in q]
MapSeq(f(_), q) == [i \in 1..Len(q) |-> f(q[i])] \o <<>>

NonEmpty(x) == x # <<>>

\* [cleaned for p in q if cleaned and cleaned not in result]
CleanedPhones(q) ==
    Dedupe(SelectSeq([k \in 1..Len(q) |-> clean_phone_number(q[k])] \o <<>>, NonEmpty))

phone_indicators ==
    << <<"p","h","o","n","e">>,
       <<"m","o","b","i","l","e">>,
       <<"c","e","l","l">>,
       <<"c","a","l","l">>,
       <<"t","e","l">>,
       <<"t","e","l","e","p","h","o","n","e">>,
       <<"c","o","n","t","a","c","t">> >>

\* \w
WordChar(c) == c \in Letters \/ c \in Digits \/ c = "_"

\* the width of the window around an indicator
WindowBefore == 30

WindowAfter == 50

\* \bindicator\b  matched at index j of low = content.lower(): the index of
\* the last character of the match, 0 when there is no match
MatchWordAt(low, j, indicator) ==
    IF /\ HasAt(low, j, indicator)
       /\ (j = 1 \/ ~WordChar(low[j - 1]))
       /\ (j + Len(indicator) - 1 = Len(low) \/ ~WordChar(low[j + Len(indicator)]))
    THEN j + Len(indicator) - 1
    ELSE 0

\* content[max(0, pos - 30):min(len(content), pos + 50)]
Window(content, pos) ==
    SubSeq(content,
           (IF pos - WindowBefore > 0 THEN pos - WindowBefore ELSE 0) + 1,
           IF pos + WindowAfter < Len(content) THEN pos + WindowAfter ELSE Len(content))

\* the windows at the matches whose indexes are spans
WindowsAt(content, spans) ==
    [k \in 1..Len(spans) |-> Window(content, spans[k][1] - 1)] \o <<>>

\* the windows of the matches of one indicator
IndicatorWindows(content, low, indicator) ==
    WindowsAt(content,
              Spans([j \in 1..Len(low) |-> MatchWordAt(low, j, indicator)] \o <<>>))

\* the windows of the matches of all indicators, in the order of the loops
AllIndicatorWindows(content, low) ==
    Flatten([k \in 1..Len(phone_indicators) |->
                 IndicatorWindows(content, low, phone_indicators[k])] \o <<>>)

\* the matches of PHONE_PATTERN in the windows
WindowPhones(windows) ==
    Flatten([k \in 1..Len(windows) |-> FindAllPhone(windows[k])] \o <<>>)

\* high_confidence_phones of extract_phones_from_content
HighConfidencePhones(content) ==
    CleanedPhones(WindowPhones(AllIndicatorWindows(content, Lower(content))))

\* what extract_phones_from_content returns from high_confidence_phones and
\* the set of the matches in the whole content. valid_phones iterates
\* set(plus_phones), whose order is not fixed, so each order of the set
\* gives one possible list.
ReturnedPhones(high_confidence_phones, plus_phones) ==
    IF high_confidence_phones # <<>> THEN { high_confidence_phones }
    ELSE { CleanedPhones(q) : q \in AllOrders(plus_phones) }

\* extract_phones_from_content (the second definition of the class): the
\* lists it can return
extract_phones_from_content(content) ==
    IF Len(content) = 0 THEN { <<>> }
    ELSE ReturnedPhones(HighConfidencePhones(content), Range(FindAllPhone(content)))

\* the lists extract_emails_from_content can return: one per order of
\* list(set(standard_emails + obfuscated_emails))
EmailLists(content) == AllOrders(extract_emails_from_content(content))


\* ------------------------------------------------------------------------
\* Pages
\*
\* A fetched page is a sequence of items. An item is a value (a text
\* snippet, the target of a mailto: or tel: link, a schema.org value, ...)
\* at a place of the document; the HTML of the page is put together from its
\* items, and every selector and pattern of the source is computed on that
\* HTML or on the items it selects.
\* ------------------------------------------------------------------------

\* text snippets
T_Sales == <<"s","a","l","e","s","@","a","c","m","e","t","o","o","l","s",".","c","o","m">>

T_Hr == <<"h","r","@","a","c","m","e",".","i","n">>

T_Test == <<"t","e","s","t","@","t","e","s","t",".","c","o","m">>

T_Obfuscated == <<"s","a","l","e","s"," ","[","a","t","]"," ","a","c","m","e","t","o","o","l","s"," ","[","d","o","t","]"," ","c","o","m">>

T_CallUs == <<"C","a","l","l"," ","u","s",":"," ","+","9","1"," ","9","8","2","0","1"," ","2","3","4","5","6">>

T_Us == <<"+","1"," ","(","4","1","5",")"," ","5","5","5","-","0","1","2","3">>

T_Short == <<"+","1","2","3","4","5","6","7","8">>

\* the target of a mailto: link
M_Example == <<"i","n","f","o","@","e","x","a","m","p","l","e",".","c","o","m">>

\* targets of tel: links
L_Plus == <<"+","9","1","-","9","8","2","0","1","-","2","3","4","5","6">>

L_Local == <<"9","8","2","0","1","2","3","4","5","6">>

\* the HTML an item contributes
Open_P == <<"<","p",">">>

Close_P == <<"<","/","p",">">>

Open_Mailto == <<"<","a"," ","h","r","e","f","=","'","m","a","i","l","t","o",":">>

Close_Mailto == <<"'",">","W","r","i","t","e","<","/","a",">">>

Open_Tel == <<"<","a"," ","h","r","e","f","=","'","t","e","l",":">>

Close_Tel == <<"'",">","R","i","n","g","<","/","a",">">>

ItemInner(item) ==
    CASE item.form = "text"   -> Open_P \o item.value \o Close_P
      [] item.form = "mailto" -> Open_Mailto \o item.value \o Close_Mailto
      [] item.form = "tel"    -> Open_Tel \o item.value \o Close_Tel
      [] OTHER                -> <<>>

\* the element that holds the item, by place
PlaceOpen ==
    [ footer  |-> <<"<","f","o","o","t","e","r",">">>,
      contact |-> <<"<","d","i","v"," ","c","l","a","s","s","=","'","c","o","n","t","a","c","t","-","i","n","f","o","'",">">>,
      about   |-> <<"<","d","i","v"," ","c","l","a","s","s","=","'","a","b","o","u","t","'",">">>,
      address |-> <<"<","a","d","d","r","e","s","s",">">>,
      form    |-> <<"<","f","o","r","m",">","<","i","n","p","u","t"," ","t","y","p","e","=","'","e","m","a","i","l","'",">","<","i","n","p","u","t"," ","t","y","p","e","=","'","t","e","l","'",">">>,
      card    |-> <<"<","d","i","v"," ","c","l","a","s","s","=","'","o","r","g","-","c","o","n","t","a","c","t","-","i","n","f","o","-","c","a","r","d","'",">">>,
      fbinfo  |-> <<"<","d","i","v",">","I","n","f","o"," ">>,
      body    |-> <<>> ]

PlaceClose ==
    [ footer  |-> <<"<","/","f","o","o","t","e","r",">">>,
      contact |-> <<"<","/","d","i","v",">">>,
      about   |-> <<"<","/","d","i","v",">">>,
      address |-> <<"<","/","a","d","d","r","e","s","s",">">>,
      form    |-> <<"<","/","f","o","r","m",">">>,
      card    |-> <<"<","/","d","i","v",">">>,
      fbinfo  |-> <<"<","/","d","i","v",">">>,
      body    |-> <<>> ]

HtmlPlaces == {"footer", "contact", "about", "address", "form", "card", "fbinfo", "body"}

Schema_Open == <<"<","s","c","r","i","p","t"," ","t","y","p","e","=","'","a","p","p","l","i","c","a","t","i","o","n","/","l","d","+","j","s","o","n","'",">","{","\"">>

Schema_Mid == <<"\"",":"," ","\"">>

Schema_Close == <<"\"","}","<","/","s","c","r","i","p","t",">">>

\* the keys of a schema.org object
SchemaKey == [ email |-> <<"e","m","a","i","l">>, telephone |-> <<"t","e","l","e","p","h","o","n","e">> ]

Meta_Open == <<"<","m","e","t","a"," ","n","a","m","e","=","'","e","m","a","i","l","'"," ","c","o","n","t","e","n","t","=","'">>

Meta_Close == <<"'",">">>

Widget_Open == <<"<","s","p","a","n"," ","c","l","a","s","s","=","'","p","n","s","-","n","u","m","b","e","r","'",">">>

Widget_Close == <<"<","/","s","p","a","n",">">>

\* a link that a callback follows: <a href='/HREF'>More</a>
Link_Open == <<"<","a"," ","h","r","e","f","=","'">>

Link_Close == <<"'",">","M","o","r","e","<","/","a",">">>

LinkHref ==
    [ contact |-> <<"/","c","o","n","t","a","c","t">>,
      footer  |-> <<"/","c","o","n","t","a","c","t","#","f","o","o","t","e","r">>,
      nav     |-> <<"/","c","o","n","t","a","c","t","#","n","a","v">>,
      about   |-> <<"/","a","b","o","u","t">>,
      company |-> <<"/","c","o","m","p","a","n","y","/","a","c","m","e","-","t","o","o","l","s">>,
      stranger |-> <<"/","c","o","m","p","a","n","y","/","z","e","n","i","t","h">>,
      product |-> <<"/","a","c","m","e","-","t","o","o","l","s","-","p","u","n","e">>,
      website |-> <<"h","t","t","p",":","/","/","a","c","m","e",".","e","x","a","m","p","l","e">> ]

Title_Open == <<"<","t","i","t","l","e",">">>

Title_Close == <<"<","/","t","i","t","l","e",">">>

\* element.get() / the part of response.text an item makes up
ItemHtml(item) ==
    CASE item.place \in HtmlPlaces ->
            PlaceOpen[item.place] \o ItemInner(item) \o PlaceClose[item.place]
      [] item.place = "schema" ->
            Schema_Open \o SchemaKey[item.form] \o Schema_Mid \o item.value
                \o Schema_Close
      [] item.place = "meta"   -> Meta_Open \o item.value \o Meta_Close
      [] item.place = "widget" -> Widget_Open \o item.value \o Widget_Close
      [] item.place = "link"   -> Link_Open \o LinkHref[item.form] \o Link_Close
      [] item.place = "title"  -> Title_Open \o item.value \o Title_Close
      [] OTHER -> <<>>

\* response.text
PageText(page) == Flatten(MapSeq(ItemHtml, page))


\* ------------------------------------------------------------------------
\* What the selectors of the source return on a page
\* ------------------------------------------------------------------------

ItemsAt(page, places) == SelectSeq(page, LAMBDA it : it.place \in places)

ItemsOfForm(page, forms) ==
    SelectSeq(page, LAMBDA it : it.place \in HtmlPlaces /\ it.form \in forms)

ItemValue(item) == item.value

\* response.css('footer, .footer, #footer, [class*=footer], [id*=footer]')
FooterPlaces == {"footer"}

\* response.css('.contact, #contact, [class*=contact], [id*=contact], ...'):
\* the class of a LinkedIn contact card contains "contact" too
ContactPlaces == {"contact", "card"}

\* response.css('.about, #about, [class*=about-us], [id*=about-us]')
AboutPlaces == {"about"}

\* response.css('address, .address, .location, .company-address, ...')
AddressPlaces == {"address"}

\* response.css('.contact-info, .contact-details, ..., .contact-data')
ContactInfoPlaces == {"contact"}

\* response.css('.vcard, .contact-card, ..., address, .address')
ContactCardPlaces == {"address"}

\* response.css('.org-contact-info-card, ...')
LinkedInCardPlaces == {"card"}

\* response.css('div:contains("Contact"), ..., div:contains("Info")')
FacebookInfoPlaces == {"fbinfo"}

\* the places whose element is a div
DivPlaces == {"contact", "about", "card", "fbinfo"}

\* a[href^="mailto:"]::attr(href) and a[href^="tel:"]::attr(href), without
\* the scheme
MailtoLinks(page) == MapSeq(ItemValue, ItemsOfForm(page, {"mailto"}))

TelLinks(page) == MapSeq(ItemValue, ItemsOfForm(page, {"tel"}))

\* p::text, span::text, a::text, div::text, ... that can hold a contact: the
\* text snippets (the link texts and labels of the pages hold none)
VisibleTexts(page) == MapSeq(ItemValue, ItemsOfForm(page, {"text"}))

\* meta[name*="email"]::attr(content)
MetaEmails(page) == MapSeq(ItemValue, ItemsAt(page, {"meta"}))

\* script[type="application/ld+json"]: one object with one key per item
SchemaItems(page) == ItemsAt(page, {"schema"})

\* *::text that can hold a contact: text snippets, widget texts and the
\* text of the script elements
AllTexts(page) ==
    MapSeq(LAMBDA it : IF it.place = "schema" THEN ItemHtml(it) ELSE it.value,
           SelectSeq(page, LAMBDA it :
               \/ it.place \in {"schema", "widget"}
               \/ it.place \in HtmlPlaces /\ it.form = "text"))

\* .pns-number::text, ...
WidgetTexts(page) == MapSeq(ItemValue, ItemsAt(page, {"widget"}))

\* p, div, li elements, in document order
BlocksOf(item) ==
    (IF item.place \in DivPlaces THEN <<ItemHtml(item)>> ELSE <<>>)
        \o (IF item.place \in HtmlPlaces /\ item.form = "text"
            THEN <<ItemInner(item)>> ELSE <<>>)

ContactBlocks(page) == Flatten(MapSeq(BlocksOf, page))

\* ' '.join(field.xpath('ancestor::form//text()').getall()) for the input
\* fields of the forms of the page
FormTexts(page) ==
    MapSeq(ItemValue, SelectSeq(page, LAMBDA it : it.place = "form" /\ it.form = "text"))

\* the answer of the generative model for the page (an "ai" item), or the
\* answer with two empty fields
EmptyAnswer == [ form |-> "json", email |-> <<>>, phone |-> <<>> ]

ModelAnswer(page) ==
    IF \E i \in 1..Len(page) : page[i].place = "ai"
    THEN LET it == page[CHOOSE i \in 1..Len(page) : page[i].place = "ai"]
         IN  [ form |-> it.form, email |-> it.value, phone |-> it.more ]
    ELSE EmptyAnswer

\* ------------------------------------------------------------------------
\* The record of a company and the running state of one callback
\* ------------------------------------------------------------------------

\* the companies of companylist.csv
Companies == {"Acme Tools"}

\* the companies of a companylist.csv of two lines
BatchCompanies == Companies \cup {"Zenith Traders"}

\* guess_company_url
Website ==
    [ c \in BatchCompanies |->
        IF c \in Companies THEN "http://www.acme-tools.com"
        ELSE "http://www.zenith-traders.com" ]

\* company['name'] as text
NameText ==
    [ c \in BatchCompanies |->
        IF c \in Companies THEN <<"A","c","m","e"," ","T","o","o","l","s">> ELSE <<"Z","e","n","i","t","h"," ","T","r","a","d","e","r","s">> ]

\* company_key not in self.results
Absent == [ absent |-> TRUE ]

\* the value of 'source': the source of the request and what the writing
\* step adds to it, f"{source} ({suffix})"
Label(source, suffix) == <<source, suffix>>

NoLabel == Label("", "")

\* the record created by  if company_key not in self.results: ...
NewRecord(c) ==
    [ name |-> c, website |-> Website[c], email |-> <<>>, phone |-> <<>>,
      source |-> NoLabel ]

\* no call of verify_contact_info yet
NotAsked == [ asked |-> FALSE ]

\* What a callback works on: the record of its company (rec), whether the
\* attribute saved_<company> exists (saved), the rows it has written (out),
\* its call of verify_contact_info (gem), the requests it has made (issued),
\* whether it has found the login page (wall) and whether an exception has
\* left it (raised). Enter is the state a callback starts in.
Enter(rec, is_saved) ==
    [ rec |-> rec, saved |-> is_saved, out |-> <<>>, gem |-> NotAsked,
      issued |-> {}, wall |-> FALSE, raised |-> FALSE ]

Ensure(h, c) == IF h.rec = Absent THEN [h EXCEPT !.rec = NewRecord(c)] ELSE h

HasEmail(rec) == rec # Absent /\ rec.email # <<>>

HasPhone(rec) == rec # Absent /\ rec.phone # <<>>

\* results[key].get('email') and results[key].get('phone')
IsComplete(rec) == HasEmail(rec) /\ HasPhone(rec)

\* if emails and not results[key].get('email'):
\*     results[key]['email'] = emails[0]; results[key]['source'] = label
\* with the emptiness test dropped: every candidate overwrites the field
SetEmailOverwrite(h, emails, label) ==
    IF emails # <<>>
    THEN [h EXCEPT !.rec.email = emails[1], !.rec.source = label]
    ELSE h

SetEmail(h, emails, label) ==
    IF emails # <<>> /\ h.rec.email = <<>>
    THEN [h EXCEPT !.rec.email = emails[1], !.rec.source = label]
    ELSE h

\* the same for the phone, with the emptiness test dropped
SetPhoneOverwrite(h, phones, label) ==
    IF phones # <<>>
    THEN [h EXCEPT !.rec.phone = phones[1], !.rec.source = label]
    ELSE h

\* the same, with the source left as it is
SetPhoneSameSource(h, phones, label) ==
    IF phones # <<>> /\ h.rec.phone = <<>>
    THEN [h EXCEPT !.rec.phone = phones[1]]
    ELSE h

SetPhone(h, phones, label) ==
    IF phones # <<>> /\ h.rec.phone = <<>>
    THEN [h EXCEPT !.rec.phone = phones[1], !.rec.source = label]
    ELSE h

\* the row __init__ writes: writer.writerow(['Company Name', 'Website', ...])
Header ==
    [ name |-> "Company Name", website |-> "Website", email |-> <<"E","m","a","i","l">>,
      phone |-> <<"P","h","o","n","e">>, source |-> Label("Source", "") ]

\* a row of the output file
Row(rec) ==
    [ name |-> rec.name, website |-> rec.website, email |-> rec.email,
      phone |-> rec.phone, source |-> rec.source ]

\* save_result without the hasattr test: every call appends a row
save_result_always(h) ==
    IF h.rec # Absent /\ (h.rec.email # <<>> \/ h.rec.phone # <<>>)
    THEN [h EXCEPT !.saved = TRUE, !.out = Append(@, Row(h.rec))]
    ELSE h

save_result(h) ==
    IF h.rec # Absent
    THEN IF (h.rec.email # <<>> \/ h.rec.phone # <<>>) /\ ~h.saved
         THEN [h EXCEPT !.saved = TRUE, !.out = Append(@, Row(h.rec))]
         ELSE h
    ELSE h

\* the results of a step on each of the states a callback can be in
Bind(H, Step(_)) == UNION { Step(h) : h \in H }

\* a loop  for x in q: step(x)  over the states a callback can be in
ForEach(H, q, Step(_, _)) ==
    LET after[k \in 0..Len(q)] ==
            IF k = 0 THEN H ELSE UNION { Step(h, q[k]) : h \in after[k - 1] }
    IN  after[Len(q)]

\* a + b for every list a of A and b of B
ConcatLists(A, B) == { a \o b : a \in A, b \in B }

RECURSIVE ConcatAll(_)
ConcatAll(qq) ==
    IF Len(qq) = 0 THEN { <<>> } ELSE ConcatLists(qq[1], ConcatAll(Tail(qq)))

\* scrapy.Request(callback=..., meta={'company': company, 'source': ...}).
\* The requests a callback makes for one callback with one source (the 13
\* contact paths, the 5 alternative domains, ...) are held as one request.
Req(callback, source) == [ callback |-> callback, source |-> source ]

LinkedInCallbacks ==
    { "parse_linkedin", "parse_linkedin_search_results", "parse_linkedin_company",
      "parse_linkedin_about" }

FacebookCallbacks == { "parse_facebook", "parse_facebook_about" }

\* the network a request goes to
Network(req) ==
    IF req.callback \in LinkedInCallbacks THEN "linkedin"
    ELSE IF req.callback \in FacebookCallbacks THEN "facebook"
    ELSE IF req.callback \in {"parse_indiamart", "parse_indiamart_company"}
         THEN "indiamart"
    ELSE "web"

\* yield scrapy.Request(...)
Yield(h, reqs) == [h EXCEPT !.issued = @ \cup reqs]

\* 'login' in response.url or 'checkpoint' in response.url
IsLoginUrl(url) == url = "login"

\* the return of a callback that has found the login page
LoginReturn(h) == [h EXCEPT !.wall = TRUE]

\* an exception that leaves the callback
Raise(h) == [h EXCEPT !.raised = TRUE]


\* ------------------------------------------------------------------------
\* What the patterns of the source find in a section, in the special
\* elements of a page and in the answer of the generative model
\* ------------------------------------------------------------------------

contact_labels ==
    << <<"c","o","n","t","a","c","t"," ","u","s">>, <<"e","m","a","i","l"," ","u","s">>, <<"m","a","i","l"," ","u","s">>, <<"c","a","l","l"," ","u","s">>, <<"p","h","o","n","e">>,
       <<"t","e","l","e","p","h","o","n","e">>, <<"m","o","b","i","l","e">>, <<"e","m","a","i","l">>, <<"e","-","m","a","i","l">>, <<"g","e","t"," ","i","n"," ","t","o","u","c","h">> >>

\* the width of the text searched around a contact label
LabelBefore == 30

LabelAfter == 150

\* str.find
FindFirst(s, sub) ==
    CHOOSE i \in 0..(Len(s) - Len(sub)) :
        /\ HasAt(s, i + 1, sub)
        /\ \A j \in 0..(i - 1) : ~HasAt(s, j + 1, sub)

\* section_html_lower[search_start:search_end] for a label; "" without it
NearbyText(low, label) ==
    IF ~Contains(low, label) THEN <<>>
    ELSE LET pos == FindFirst(low, label)
             search_start == IF pos - LabelBefore > 0 THEN pos - LabelBefore ELSE 0
             search_end == IF pos + LabelAfter < Len(low) THEN pos + LabelAfter
                           ELSE Len(low)
         IN  SubSeq(low, search_start + 1, search_end)

\* the texts of the span, p, div, li and address elements of a footer
FooterElements(item) == IF item.form = "text" THEN <<item.value>> ELSE <<>>

\* section_html_lower[search_start:search_end] for each contact label
LabelTexts(low) ==
    [k \in 1..Len(contact_labels) |-> NearbyText(low, contact_labels[k])] \o <<>>

\* the texts extract_from_section searches with the patterns: the section,
\* the text near each contact label of the section and, in a footer, the
\* texts of its elements
SectionTextsOf(item, section_type, section_html) ==
    <<section_html>>
        \o LabelTexts(Lower(section_html))
        \o (IF section_type = "footer" THEN FooterElements(item) ELSE <<>>)

SectionTexts(item, section_type) == SectionTextsOf(item, section_type, ItemHtml(item))

\* the lists of the emails and of the phones that the patterns can find in
\* each of the texts
TextEmailLists(texts) == [k \in 1..Len(texts) |-> EmailLists(texts[k])] \o <<>>

TextPhoneLists(texts) ==
    [k \in 1..Len(texts) |-> extract_phones_from_content(texts[k])] \o <<>>

\* the lists a section gives: what is found in the section itself, then
\* what its mailto: or tel: links hold, then what is found near the labels
\* and in the elements
WithLinks(found, links) == ConcatAll(<<found[1], {links}>> \o Tail(found))

\* the matches of  href=["\']mailto:([^"\']+)["\']  in section_html_lower
\* that pass the test of extract_from_section
SectionMailtos(item) ==
    SelectSeq(MapSeq(MailtoAddress,
                     IF item.form = "mailto" THEN <<Lower(item.value)>> ELSE <<>>),
              MailtoCheck)

\* emails of extract_from_section before the record is updated: the lists
\* it can be. The mailto: links come after the emails of the section itself.
SectionEmailLists(item, texts) == WithLinks(TextEmailLists(texts), SectionMailtos(item))

\* self.clean_phone_number(match.strip())
CleanTel(match) == clean_phone_number(Strip(match))

\* the matches of  href=["\']tel:([^"\']+)["\']  in section_html_lower that
\* clean_phone_number keeps
SectionTels(item) ==
    SelectSeq(MapSeq(CleanTel, IF item.form = "tel" THEN <<Lower(item.value)>> ELSE <<>>),
              NonEmpty)

\* phones of extract_from_section before the record is updated
SectionPhoneLists(item, texts) == WithLinks(TextPhoneLists(texts), SectionTels(item))

\* what extract_from_section finds in one section, whose texts are given
SectionFound(item, texts) ==
    [ emails |-> SectionEmailLists(item, texts),
      phones |-> SectionPhoneLists(item, texts) ]

SectionsScan(items, section_type) ==
    [k \in 1..Len(items) |->
         SectionFound(items[k], SectionTexts(items[k], section_type))] \o <<>>

\* what extract_from_section finds in the sections of a page at places
SectionScan(page, places, section_type) ==
    SectionsScan(ItemsAt(page, places), section_type)

\* the email extract_from_schema keeps, "" for a value it refuses
SchemaEmail(email) ==
    IF email # <<>> /\ Contains(email, <<"@">>) /\ ShortPlaceholderFilter(Strip(email))
    THEN Strip(email)
    ELSE <<>>

\* the phone extract_from_schema keeps, "" for a value it refuses
SchemaPhone(phone) == IF phone # <<>> THEN clean_phone_number(phone) ELSE <<>>

\* what extract_from_schema takes from schema_data, an object with the key
\* item.form
SchemaScan(item) ==
    [ email |-> SchemaEmail(IF item.form = "email" THEN item.value ELSE <<>>),
      phone |-> SchemaPhone(IF item.form = "telephone" THEN item.value ELSE <<>>) ]

\* the length and TLD filter at the end of extract_contacts_from_html
LengthAndTld(email) ==
    /\ Len(email) >= MinEmailLen
    /\ Len(email) <= MaxEmailLen
    /\ \E tld \in allowed_tlds : EndsWith(Lower(email), tld)

\* the digits of a local Indian mobile number
LocalDigits == 10

\* the phone of a tel: link before it is cleaned
TelNormalize(target) ==
    LET phone == Strip(target) IN
    IF StartsWith(phone, <<"+">>) THEN phone
    ELSE IF Len(phone) = LocalDigits /\ phone[1] \in {"6", "7", "8", "9"}
         THEN <<"+", "9", "1">> \o phone
    ELSE IF StartsWith(phone, <<"0", "0">>)
         THEN <<"+">> \o SubSeq(phone, 3, Len(phone))
    ELSE <<"+">> \o phone

HasAtSign(email) == Contains(email, <<"@">>)

\* the mailto: links and the meta tags that pass the tests of
\* extract_contacts_from_html
HtmlMailtos(page) ==
    SelectSeq(SelectSeq(MapSeq(MailtoAddress, MailtoLinks(page)), MailtoCheck),
              ReMatchEmail)

HtmlMetas(page) == SelectSeq(SelectSeq(MetaEmails(page), HasAtSign), ReMatchEmail)

\* the emails in the order extract_contacts_from_html finds them: those of
\* the visible texts, the mailto: links, then those of the meta tags
HtmlFound(lists, visible, link) ==
    ConcatAll(SubSeq(lists, 1, Len(visible)) \o << {link} >>
                  \o SubSeq(lists, Len(visible) + 1, Len(lists)))

HtmlCandidates(visible, link, tag) == HtmlFound(TextEmailLists(visible \o tag), visible, link)

\* contacts['emails'] of extract_contacts_from_html (the second definition
\* of the class): the lists it can be
HtmlEmailLists(page) ==
    { SelectSeq(Dedupe(q), LengthAndTld) :
        q \in HtmlCandidates(VisibleTexts(page), HtmlMailtos(page), HtmlMetas(page)) }

\* contacts['phones'] of extract_contacts_from_html
HtmlPhones(page) == CleanedPhones(MapSeq(TelNormalize, TelLinks(page)))

\* verify_contact_info on the answer of the generative model. form is
\* "raise" when the call or the parse raises, "json" when the answer is a
\* JSON object, "text" when only the regular expressions find the fields and
\* "array" when the answer is JSON but no object (a list of objects, []):
\* neither key is  in  the list, and  return result  returns the list, which
\* has no field (object is FALSE; email and phone are never read).
\* Both paths apply the same two tests to the fields they read.
verify_contact_info(answer) ==
    IF answer.form \in {"json", "text"}
    THEN [ object |-> TRUE,
           email |-> IF /\ answer.email # <<>>
                        /\ extract_emails_from_content(answer.email) = {}
                     THEN <<>> ELSE answer.email,
           phone |-> IF answer.phone # <<>> /\ ~validate_phone_number(answer.phone)
                     THEN <<>> ELSE answer.phone ]
    ELSE IF answer.form = "array"
    THEN [ object |-> FALSE, email |-> <<>>, phone |-> <<>> ]
    ELSE [ object |-> TRUE, email |-> <<>>, phone |-> <<>> ]

\* ------------------------------------------------------------------------
\* What the LinkedIn, IndiaMart and Facebook callbacks find on a page
\* ------------------------------------------------------------------------

\* the repetition limits of INDIA_PHONE_PATTERN  \+91[\d\s\-()]{8,15}
MinIndiaTail == 8

MaxIndiaTail == 15

IndiaPrefix == <<"+", "9", "1">>

\* INDIA_PHONE_PATTERN matched at index i: the index of the last character
\* of the match, 0 when there is no match. first is the index after the
\* prefix, r the end of the run of phone characters from there.
IndiaTaken(first, len) == IF len >= MinIndiaTail THEN first + len - 1 ELSE 0

IndiaRun(first, r) ==
    IndiaTaken(first, IF r - first + 1 > MaxIndiaTail THEN MaxIndiaTail ELSE r - first + 1)

MatchIndiaPhoneAt(s, i) ==
    IF ~HasAt(s, i, IndiaPrefix) THEN 0
    ELSE IndiaRun(i + Len(IndiaPrefix), RunEnd(PhoneChar, s, i + Len(IndiaPrefix)))

\* re.findall(INDIA_PHONE_PATTERN, s)
FindAllIndiaPhone(s) ==
    MatchTexts(s, Spans([j \in 1..Len(s) |-> MatchIndiaPhoneAt(s, j)] \o <<>>))

\* re.sub(r'[^\d+]', '', phone)
DigitsAndPlus(phone) == SelectSeq(phone, LAMBDA ch : IsDigit(ch) \/ ch = "+")

\* the least length of a cleaned phone that method 1 keeps
MinLinkedInPhone == 8

\* the value a loop leaves in a variable it assigns from each element of q:
\* the last assignment, or the value before the loop
LastOr(q, before) == IF Len(q) = 0 THEN before ELSE q[Len(q)]

\* q[0], "" for an empty list
FirstOrEmpty(q) == IF q # <<>> THEN q[1] ELSE <<>>

\* valid_emails[0] of method 1 for one element, "" without a valid email
CardEmail(element_text) ==
    FirstOrEmpty(SelectSeq(FindAllEmail(element_text), ShortPlaceholderFilter))

\* len(re.sub(r'[^\d+]', '', phone)) >= 8
LongEnough(phone) == Len(DigitsAndPlus(phone)) >= MinLinkedInPhone

\* filtered_phones[0] of method 1 for one element, "" without a phone
CardPhone(element_text) ==
    FirstOrEmpty(SelectSeq(FindAllPhone(element_text) \o FindAllIndiaPhone(element_text),
                           LongEnough))

\* the email and the phone method 1 leaves: those of the last card that
\* holds one
CardEmails(cards) ==
    SelectSeq([k \in 1..Len(cards) |-> CardEmail(cards[k])] \o <<>>, NonEmpty)

CardPhones(cards) ==
    SelectSeq([k \in 1..Len(cards) |-> CardPhone(cards[k])] \o <<>>, NonEmpty)

HasDigitsOrPlus(phone) == DigitsAndPlus(phone) # <<>>

\* contact_data from the contact cards (method 1) and from the mailto: and
\* tel: links (method 3), which are applied last
LinkedInMethods(cards, mailtos, tels) ==
    [ email |-> IF mailtos # <<>> THEN mailtos[1] ELSE LastOr(CardEmails(cards), <<>>),
      phone |-> IF tels # <<>> THEN tels[1] ELSE LastOr(CardPhones(cards), <<>>) ]

\* extract_linkedin_specific_contact: contact_data. The pages hold no
\* element of method 2
extract_linkedin_specific_contact(page) ==
    LinkedInMethods(MapSeq(ItemHtml, ItemsAt(page, LinkedInCardPlaces)),
                    SelectSeq(MapSeq(MailtoAddress, MailtoLinks(page)), MailtoCheck),
                    SelectSeq(MapSeq(Strip, TelLinks(page)), HasDigitsOrPlus))

S_contact == <<"c","o","n","t","a","c","t">>

S_about == <<"a","b","o","u","t">>

S_reach == <<"r","e","a","c","h">>

S_info == <<"i","n","f","o">>

S_company == <<"/","c","o","m","p","a","n","y","/">>

S_http == <<"h","t","t","p">>

S_linkedin == <<"l","i","n","k","e","d","i","n",".","c","o","m">>

S_phone == <<"p","h","o","n","e">>

S_email == <<"e","m","a","i","l">>

S_call == <<"c","a","l","l">>

S_mail == <<"m","a","i","l">>

S_tel == <<"t","e","l">>

S_sendInquiry == <<"s","e","n","d","I","n","q","u","i","r","y">>

\* what a pattern search of a text gives
TextScan(text) ==
    [ emails |-> EmailLists(text), phones |-> extract_phones_from_content(text) ]

\* any(keyword in text.lower() for keyword in keywords)
HasKeyword(low, keywords) == \E k \in keywords : Contains(low, k)

KeywordFound(keyword, scan) ==
    [ keyword |-> keyword, emails |-> scan.emails, phones |-> scan.phones ]

\* what a callback finds in an element that it searches when the element
\* holds one of its keywords
KeywordScan(text, keywords) ==
    KeywordFound(HasKeyword(Lower(text), keywords), TextScan(text))

KeywordScans(texts, keywords) ==
    [k \in 1..Len(texts) |-> KeywordScan(texts[k], keywords)] \o <<>>

\* the keywords of a section that parse_linkedin_about searches
AboutKeywords == { S_contact, S_phone, S_email }

\* what parse_linkedin_about finds in the contact sections of the page
AboutScan(page) ==
    KeywordScans(MapSeq(ItemHtml, ItemsAt(page, LinkedInCardPlaces)), AboutKeywords)

\* re.match(r'\d+', phone) and self.validate_phone_number(phone)
DigitsFirstAndValid(phone) ==
    /\ Len(phone) > 0
    /\ IsDigit(phone[1])
    /\ validate_phone_number(phone)

\* [phone for elem in phone_elements
\*     if re.match(r'\d+', phone) and self.validate_phone_number(phone)]
WidgetPhones(elems) == SelectSeq(MapSeq(Strip, elems), DigitsFirstAndValid)

\* the emails of one text node that pass the short list of placeholders
NodeEmails(text) ==
    IF Contains(text, <<"@">>)
    THEN SelectSeq(FindAllEmail(text), ShortPlaceholderFilter)
    ELSE <<>>

NodesEmails(texts) == Flatten([k \in 1..Len(texts) |-> NodeEmails(texts[k])] \o <<>>)

\* the emails of the text nodes that pass the short list of placeholders
TextEmails(page) == NodesEmails(AllTexts(page))

\* what parse_facebook_about finds in one contact section;
\* list(set(phones + india_phones)) can come in any order
FacebookSectionScan(section) ==
    [ emails |-> SelectSeq(FindAllEmail(section), ShortPlaceholderFilter),
      phones |-> { SelectSeq(q, validate_phone_number) :
                     q \in AllOrders(Range(FindAllPhone(section)
                               \o FindAllIndiaPhone(section))) } ]

FacebookSections(sections) ==
    [k \in 1..Len(sections) |-> FacebookSectionScan(sections[k])] \o <<>>

\* what parse_facebook_about finds in the contact sections of the page
FacebookScan(page) ==
    FacebookSections(MapSeq(ItemHtml, ItemsAt(page, FacebookInfoPlaces)))

\* ------------------------------------------------------------------------
\* What parse_contact_page finds on a page
\* ------------------------------------------------------------------------

\* ' '.join(q)
RECURSIVE Join(_)
Join(q) ==
    IF Len(q) = 0 THEN <<>>
    ELSE IF Len(q) = 1 THEN q[1]
    ELSE q[1] \o <<" ">> \o Join(Tail(q))

S_More == <<"M","o","r","e">>

S_Write == <<"W","r","i","t","e">>

S_Ring == <<"R","i","n","g">>

S_Info == <<"I","n","f","o"," ">>

\* the text nodes of the body that an item makes up; a script element that
\* opens the document is put in the head
ItemTexts(item) ==
    CASE item.place \in HtmlPlaces ->
            (IF item.place = "fbinfo" THEN <<S_Info>> ELSE <<>>)
                \o (CASE item.form = "text" -> <<item.value>>
                      [] item.form = "mailto" -> <<S_Write>>
                      [] item.form = "tel" -> <<S_Ring>>
                      [] OTHER -> <<>>)
      [] item.place = "widget" -> <<item.value>>
      [] item.place = "link" -> <<S_More>>
      [] OTHER -> <<>>

\* ' '.join(response.css('body ::text').getall()).lower()
BodyText(page) == Lower(Join(Flatten(MapSeq(ItemTexts, page))))

\* 'contact' in body_text and
\* ('email' in body_text or 'phone' in body_text or 'call' in body_text)
ContactWords(body_text) ==
    /\ Contains(body_text, S_contact)
    /\ \/ Contains(body_text, S_email)
       \/ Contains(body_text, S_phone)
       \/ Contains(body_text, S_call)

\* response.css('title::text').get('').lower()
PageTitle(page) ==
    LET titles == ItemsAt(page, {"title"}) IN
    IF titles = <<>> THEN <<>> ELSE Lower(titles[1].value)

\* 'contact' in text or 'about' in text, of the URL and of the title
ContactOrAboutIn(text) == Contains(text, S_contact) \/ Contains(text, S_about)

\* the third test of is_contact_page, on the text of the body
BodyIsContact(page) == ContactWords(BodyText(page))

\* the keywords of a contact block
BlockKeywords == { S_email, S_mail, S_phone, S_call, S_contact, S_tel }

\* what parse_contact_page finds in the p, div and li elements
BlockScan(page) == KeywordScans(ContactBlocks(page), BlockKeywords)


\* ------------------------------------------------------------------------
\* The links of a page that the callbacks follow
\* ------------------------------------------------------------------------

\* the href of the links of a page, and of its links of some kinds
Hrefs(page) ==
    MapSeq(LAMBDA it : LinkHref[it.form], SelectSeq(page, LAMBDA it : it.place = "link"))

HrefsOfKinds(page, kinds) ==
    MapSeq(LAMBDA it : LinkHref[it.form],
           SelectSeq(page, LAMBDA it : it.place = "link" /\ it.form \in kinds))

\* 'contact' in link.lower() or 'about' in link.lower()
ContactOrAbout(link) ==
    Contains(Lower(link), S_contact) \/ Contains(Lower(link), S_about)

\* the requests parse_start_url makes for the links it finds
LinkRequests(page) ==
    (IF SelectSeq(Hrefs(page), ContactOrAbout) # <<>>
     THEN {Req("parse_contact_page", "company_website_contact_link")} ELSE {})
    \cup
    (IF SelectSeq(HrefsOfKinds(page, {"footer"}), ContactOrAbout) # <<>>
     THEN {Req("parse_contact_page", "company_website_footer_link")} ELSE {})
    \cup
    (IF SelectSeq(HrefsOfKinds(page, {"nav"}), ContactOrAbout) # <<>>
     THEN {Req("parse_contact_page", "company_website_nav_link")} ELSE {})

\* the requests parse_start_url makes whatever the page holds
FixedRequests ==
    { Req("parse_contact_page", "company_website_contact_page"),
      Req("parse_item", "company_website_alt"),
      Req("parse_linkedin", "linkedin"),
      Req("parse_indiamart", "indiamart"),
      Req("parse_facebook", "facebook") }

\* the links parse_item follows from a page of depth 0
FollowLinks(page) ==
    SelectSeq(Hrefs(page), LAMBDA link :
        \/ Contains(Lower(link), S_contact)
        \/ Contains(Lower(link), S_about)
        \/ Contains(Lower(link), S_reach))

\* str.replace(old, new) for single characters
ReplaceChar(s, old, new) ==
    [i \in 1..Len(s) |-> IF s[i] = old THEN new ELSE s[i]] \o <<>>

Without(s, ch) == SelectSeq(s, LAMBDA x : x # ch)

\* the length of the prefix that similar_names compares
PrefixLen == 5

\* name[:5] if len(name) >= 5 else name
NamePrefix(name) == IF Len(name) >= PrefixLen THEN SubSeq(name, 1, PrefixLen) ELSE name

\* the four tests of similar_names, on the two names in lower case and
\* without blanks
SimilarLower(name1, name2) ==
    \/ Contains(name2, name1)
    \/ Contains(name1, name2)
    \/ Contains(name2, NamePrefix(name1))
    \/ Contains(name1, NamePrefix(name2))

similar_names(a, b) == SimilarLower(Without(Lower(a), " "), Without(Lower(b), " "))

\* link.split('/company/')[1].split('/')[0].replace('-', ' ')
UrlCompanyName(link) ==
    LET pos == FindFirst(link, S_company)
        rest == SubSeq(link, pos + Len(S_company) + 1, Len(link))
    IN  ReplaceChar(SplitAt(rest, "/")[1], "-", " ")

\* relevant_links of parse_linkedin_search_results
RelevantLinks(page, c) ==
    SelectSeq(SelectSeq(Hrefs(page), LAMBDA link : Contains(link, S_company)),
              LAMBDA link : similar_names(UrlCompanyName(link), NameText[c]))

\* about_links of parse_linkedin (as written) and of parse_linkedin_company
\* (in lower case)
AboutLinks(page) == SelectSeq(Hrefs(page), LAMBDA link : Contains(link, S_about))

AboutLinksLower(page) ==
    SelectSeq(Hrefs(page), LAMBDA link : Contains(Lower(link), S_about))

\* website_links of parse_linkedin_about
WebsiteLinks(page) ==
    SelectSeq(Hrefs(page), LAMBDA link :
        StartsWith(link, S_http) /\ ~Contains(link, S_linkedin))

\* contact_links of parse_indiamart
InquiryLinks(page) ==
    SelectSeq(Hrefs(page), LAMBDA link :
        Contains(Lower(link), S_contact) \/ Contains(link, S_sendInquiry))

\* about_links of parse_facebook
FacebookAboutLinks(page) ==
    SelectSeq(Hrefs(page), LAMBDA link :
        \/ Contains(link, S_about)
        \/ Contains(link, S_info)
        \/ Contains(link, S_contact))


\* ------------------------------------------------------------------------
\* The pages the crawl is run on
\* ------------------------------------------------------------------------

Item(place, form, value) == [ place |-> place, form |-> form, value |-> value, more |-> <<>> ]

\* the answer the generative model gives for a page
Answer(form, email, phone) == [ place |-> "ai", form |-> form, value |-> email, more |-> phone ]

Link(kind) == Item("link", kind, <<>>)

\* a text with an email and a phone that no other item holds
T_Both == <<"o","p","s","@","a","c","m","e",".","i","n"," ","+","1"," ","(","2","1","2",")"," ","5","5","5","-","0","1","8","7">>

E_Both == <<"o","p","s","@","a","c","m","e",".","i","n">>

P_Both == <<"+","1","2","1","2","5","5","5","0","1","8","7">>

T_Info == <<"i","n","f","o","@","a","c","m","e",".","o","r","g">>

T_Care == <<"c","a","r","e","@","a","c","m","e",".","n","e","t">>

T_Desk == <<"d","e","s","k","@","a","c","m","e",".","i","o">>

\* a text with two emails
T_Pair == <<"j","o","b","s","@","a","c","m","e",".","c","o","m"," ","p","r","e","s","s","@","a","c","m","e",".","c","o","m">>

P_CallUs == <<"+","9","1","9","8","2","0","1","2","3","4","5","6">>

\* what the model answers
A_Mixed == <<"s","a","l","e","s","@","a","c","m","e","t","o","o","l","s",".","c","o","m",","," ","i","n","f","o","@","e","x","a","m","p","l","e",".","c","o","m">>

A_UsPhone == <<"+","1","4","1","5","5","5","5","0","1","2","3">>

A_Digits == <<"1","2","3">>

ValidItems ==
    { Item("footer", "text", T_Sales), Item("footer", "text", T_CallUs),
      Item("body", "text", T_Both) }

PlaceholderItems ==
    { Item("schema", "email", T_Test), Item("contact", "mailto", M_Example) }

AnswerItems ==
    { Answer("json", T_Hr, A_UsPhone), Answer("json", A_Mixed, <<>>),
      Answer("json", M_Example, A_Digits), Answer("array", <<>>, <<>>) }

LinkedInItems ==
    { Item("card", "text", T_Short), Item("card", "text", T_CallUs),
      Item("card", "text", T_Test), Item("body", "tel", L_Local) }

\* the most items on a page
MaxItems == 1

PagesOf(items) == UNION { [1..k -> items] : k \in 0..MaxItems }


\* ------------------------------------------------------------------------
\* A response: the page, the kind of its final URL, and what the selectors
\* and patterns of the callbacks find on the page (found)
\* ------------------------------------------------------------------------

\* what verify_contact_info returns for an answer, and whether the phone it
\* returns passes validate_phone_number
Returned(answer, gemini_results) ==
    [ answer |-> answer,
      returned |-> gemini_results,
      phone_valid |-> validate_phone_number(gemini_results.phone) ]

AnswerScan(answer) == Returned(answer, verify_contact_info(answer))

\* the sections extract_contact_info and parse_contact_page hand to
\* extract_from_section, with the section_type they give
SectionKinds ==
    << [ places |-> FooterPlaces, section_type |-> "footer" ],
       [ places |-> ContactPlaces, section_type |-> "contact section" ],
       [ places |-> AboutPlaces, section_type |-> "about section" ],
       [ places |-> AddressPlaces, section_type |-> "address section" ],
       [ places |-> ContactInfoPlaces, section_type |-> "contact section" ] >>

\* the texts a callback searches as a whole: response.text, the text of
\* the contact forms and the contact cards
WholeTexts(page) ==
    <<PageText(page), Join(FormTexts(page))>>
        \o MapSeq(ItemHtml, ItemsAt(page, ContactCardPlaces))

TextScans(texts) == [k \in 1..Len(texts) |-> TextScan(texts[k])] \o <<>>

\* what extract_from_section finds in the sections of each kind
SectionScans(page) ==
    [k \in 1..Len(SectionKinds) |->
         SectionScan(page, SectionKinds[k].places, SectionKinds[k].section_type)] \o <<>>

\* what the callbacks find on a page: sections is what extract_from_section
\* finds in the sections of each kind, texts what the patterns find in the
\* texts searched as a whole
Found(page, sections, texts) ==
    [ footer |-> sections[1],
      contact |-> sections[2],
      about |-> sections[3],
      address |-> sections[4],
      contact_info |-> sections[5],
      schema |-> MapSeq(SchemaScan, SchemaItems(page)),
      html |-> [ emails |-> HtmlEmailLists(page), phones |-> HtmlPhones(page) ],
      ai |-> AnswerScan(ModelAnswer(page)),
      content |-> texts[1],
      link_requests |-> LinkRequests(page),
      follow_links |-> FollowLinks(page),
      about_links |-> AboutLinks(page),
      about_links_lower |-> AboutLinksLower(page),
      relevant_links |-> [ c \in BatchCompanies |-> RelevantLinks(page, c) ] @@ <<>>,
      contact_data |-> extract_linkedin_specific_contact(page),
      about_sections |-> AboutScan(page),
      website_links |-> WebsiteLinks(page),
      product_links |-> HrefsOfKinds(page, {"product"}),
      inquiry_links |-> InquiryLinks(page),
      widget_elements |-> WidgetPhones(MapSeq(ItemHtml, ItemsAt(page, {"widget"}))),
      widget_texts |-> WidgetPhones(WidgetTexts(page)),
      text_emails |-> TextEmails(page),
      mailtos |-> SelectSeq(MapSeq(MailtoAddress, MailtoLinks(page)), MailtoCheck),
      facebook_links |-> FacebookAboutLinks(page),
      facebook_sections |-> FacebookScan(page),
      body_contact |-> BodyIsContact(page),
      title_contact |-> ContactOrAboutIn(PageTitle(page)),
      has_field |-> ItemsAt(page, {"form"}) # <<>>,
      form |-> texts[2],
      blocks |-> BlockScan(page),
      cards |-> SubSeq(texts, 3, Len(texts)) ]

Scan(page) == Found(page, SectionScans(page), TextScans(WholeTexts(page)))

Response(page, url) == [ page |-> page, url |-> url, found |-> Scan(page) ]

\* a page and the kind of its final URL
Served(pages, urls) == pages \X urls

\* what a site serves when it redirects to its login page
LoginPage == <<<<>>, "login">>

\* the pages a request can get, by callback
ServedFor ==
    [ parse_start_url |->
          Served(PagesOf(ValidItems \cup PlaceholderItems \cup AnswerItems
                                \cup { Link("footer"), Link("nav") }), {"site"}),
      parse_contact_page |->
          Served(PagesOf({ Item("footer", "text", T_Sales),
                              Item("footer", "text", T_CallUs),
                              Item("body", "text", T_Both),
                              Item("contact", "mailto", M_Example),
                              Item("form", "text", T_Hr),
                              Item("address", "text", T_Us) }), {"contact"})
              \cup { <<<<Item("footer", "text", T_Sales)>>, "other">> },
      parse_item |->
          Served(PagesOf({ Item("body", "text", T_Both),
                              Item("schema", "telephone", L_Plus),
                              Item("meta", "text", T_Sales),
                              Link("contact") }), {"site"}),
      parse_linkedin |->
          Served(PagesOf({ Item("card", "text", T_Short), Link("about") }),
                    {"company", "other"}),
      parse_linkedin_search_results |->
          Served(PagesOf({ Link("company"), Link("stranger") }), {"search"})
              \cup { LoginPage },
      parse_linkedin_company |->
          Served(PagesOf(LinkedInItems \cup { Link("about") }), {"company"})
              \cup { <<<<>>, "other">>, LoginPage },
      parse_linkedin_about |->
          Served(PagesOf(LinkedInItems
                                \cup { Link("website"), Item("footer", "text", T_Sales) }),
                    {"company"})
              \cup { LoginPage },
      parse_indiamart |->
          Served(PagesOf({ Item("widget", "text", L_Local), Link("product"),
                              Link("contact"), Item("body", "text", T_Test) }), {"site"}),
      parse_indiamart_company |->
          Served(PagesOf({ Item("widget", "text", L_Local),
                              Item("body", "mailto", M_Example),
                              Item("body", "text", T_Hr),
                              Answer("json", T_Hr, A_UsPhone) }), {"site"}),
      parse_facebook |->
          Served(PagesOf({ Item("footer", "text", T_CallUs), Link("about"),
                              Answer("json", T_Hr, A_UsPhone) }), {"page", "pages"})
              \cup { LoginPage },
      parse_facebook_about |->
          Served(PagesOf({ Item("fbinfo", "text", T_Us), Item("fbinfo", "text", T_Sales),
                              Item("body", "text", T_Hr),
                              Item("about", "text", T_Obfuscated) }), {"page"})
              \cup { LoginPage } ]


\* ------------------------------------------------------------------------
\* extract_contact_info and the methods it calls. Each takes the state h
\* of the callback and gives the states the callback can be in after it.
\* ------------------------------------------------------------------------

\* extract_from_section, on what the patterns find in the section
extract_from_section(h, section, source, section_type) ==
    { SetPhone(SetEmail(h, emails, Label(source, section_type)),
               phones, Label(source, section_type)) :
        emails \in section.emails, phones \in section.phones }

\* extract_from_schema, on the values it takes from schema_data
extract_from_schema(h, data, source) ==
    LET h1 == IF data.email # <<>>
              THEN SetEmail(h, <<data.email>>, Label(source, "schema"))
              ELSE h
    IN  IF data.phone # <<>>
        THEN SetPhone(h1, <<data.phone>>, Label(source, "schema"))
        ELSE h1

\* the sources for which extract_contact_info saves an incomplete record
FinalSources == {"facebook", "indiamart_company_page", "linkedin_about"}

\* step 3 of extract_contact_info. gemini_results.get(...) raises
\* AttributeError when verify_contact_info has returned a list
GeminiStep(h, ai, source) ==
    IF IsComplete(h.rec) THEN h
    ELSE IF ~ai.returned.object
    THEN Raise([h EXCEPT !.gem = [ asked |-> TRUE, complete |-> IsComplete(h.rec), answer |-> ai.answer,
                                   returned |-> ai.returned,
                                   changed |-> FALSE, raised |-> TRUE ]])
    ELSE LET gemini_results == ai.returned
             h1 == SetEmail(h, IF gemini_results.email # <<>>
                               THEN <<gemini_results.email>> ELSE <<>>,
                            Label(source, "gemini"))
             h2 == IF /\ gemini_results.phone # <<>>
                      /\ h1.rec.phone = <<>>
                      /\ ai.phone_valid
                   THEN SetPhone(h1, <<gemini_results.phone>>, Label(source, "gemini"))
                   ELSE h1
         IN  [h2 EXCEPT !.gem = [ asked |-> TRUE, complete |-> IsComplete(h.rec), answer |-> ai.answer,
                                  returned |-> gemini_results,
                                  changed |-> h2.rec # h.rec, raised |-> FALSE ]]

\* step 4 of extract_contact_info
FallbackStep(h, content, source) ==
    IF h.raised \/ IsComplete(h.rec) THEN {h}
    ELSE { SetPhone(SetEmail(h, emails, Label(source, "")), phones, Label(source, "")) :
             emails \in content.emails, phones \in content.phones }

extract_contact_info(h0, resp, c, source) ==
    LET h == Ensure(h0, c)
        f == resp.found
        footer == ForEach({h}, f.footer,
                      LAMBDA x, section : extract_from_section(x, section, source, "footer"))
        contact == ForEach(footer, f.contact,
                      LAMBDA x, section :
                          extract_from_section(x, section, source, "contact section"))
        about == ForEach(contact, f.about,
                      LAMBDA x, section :
                          extract_from_section(x, section, source, "about section"))
        address == ForEach(about, f.address,
                      LAMBDA x, section :
                          extract_from_section(x, section, source, "address section"))
        schema == ForEach(address, f.schema,
                      LAMBDA x, data : {extract_from_schema(x, data, source)})
        html == UNION { { SetPhone(SetEmail(x, emails, Label(source, "html element")),
                                   f.html.phones, Label(source, "html element")) :
                            emails \in f.html.emails } : x \in schema }
        gemini == { GeminiStep(x, f.ai, source) : x \in html }
        fallback == Bind(gemini, LAMBDA x : FallbackStep(x, f.content, source))
    IN  { IF ~x.raised /\ (IsComplete(x.rec) \/ source \in FinalSources)
          THEN save_result(x) ELSE x :
            x \in fallback }

\* the steps  gemini_results = self.verify_contact_info(...)  and the two
\* updates that follow it in parse_indiamart_company and parse_facebook;
\* gemini_results.get(...) raises AttributeError on a list
GeminiUpdate(h0, ai, c, source) ==
    IF ~ai.returned.object
    THEN Raise([h0 EXCEPT !.gem = [ asked |-> TRUE, complete |-> IsComplete(h0.rec), answer |-> ai.answer,
                                    returned |-> ai.returned,
                                    changed |-> FALSE, raised |-> TRUE ]])
    ELSE
    LET gemini_results == ai.returned
        h == IF gemini_results.email # <<>> \/ gemini_results.phone # <<>>
             THEN Ensure(h0, c) ELSE h0
        h1 == IF gemini_results.email # <<>> /\ ~HasEmail(h.rec)
              THEN SetEmail(h, <<gemini_results.email>>, Label(source, "gemini"))
              ELSE h
        h2 == IF /\ gemini_results.phone # <<>>
                 /\ ~HasPhone(h1.rec)
                 /\ ai.phone_valid
              THEN SetPhone(h1, <<gemini_results.phone>>, Label(source, "gemini"))
              ELSE h1
    IN  [h2 EXCEPT !.gem = [ asked |-> TRUE, complete |-> IsComplete(h0.rec), answer |-> ai.answer,
                             returned |-> gemini_results,
                             changed |-> h2.rec # h0.rec, raised |-> FALSE ]]

\* the update of the record from contact_data, and save_result, in
\* parse_linkedin_company and parse_linkedin_about
LinkedInUpdate(h0, contact_data, c, source) ==
    IF contact_data.email # <<>> \/ contact_data.phone # <<>>
    THEN LET h == Ensure(h0, c)
             h1 == SetEmail(h, IF contact_data.email # <<>>
                               THEN <<contact_data.email>> ELSE <<>>,
                            Label(source, ""))
             h2 == SetPhone(h1, IF contact_data.phone # <<>>
                                THEN <<contact_data.phone>> ELSE <<>>,
                            Label(source, ""))
         IN  save_result(h2)
    ELSE h0

\* ------------------------------------------------------------------------
\* The callbacks of the spider. Each takes the state h it starts in, the
\* response and the request, and gives the states it can end in.
\* ------------------------------------------------------------------------

parse_start_url(h, resp, req, c) ==
    { IF x.raised \/ IsComplete(x.rec) THEN x
      ELSE Yield(x, FixedRequests \cup resp.found.link_requests) :
        x \in extract_contact_info(h, resp, c, req.source) }

\* response.meta['depth'] of a response to a request that a callback made
FollowedDepth == 1

\* parse_item with the links followed at every depth
parse_item_at_any_depth(h, resp, req, c, depth) ==
    { IF ~x.raised /\ resp.found.follow_links # <<>>
      THEN Yield(x, {Req("parse_item", req.source)})
      ELSE x :
        x \in extract_contact_info(h, resp, c, req.source) }

parse_item(h, resp, req, c, depth) ==
    { IF ~x.raised /\ depth = 0 /\ resp.found.follow_links # <<>>
      THEN Yield(x, {Req("parse_item", req.source)})
      ELSE x :
        x \in extract_contact_info(h, resp, c, req.source) }

parse_linkedin(h, resp, req, c) ==
    { IF x.raised THEN x
      ELSE IF resp.url = "company"
      THEN IF resp.found.about_links # <<>>
           THEN Yield(x, {Req("parse_linkedin_about", "linkedin_about")})
           ELSE x
      ELSE Yield(x, {Req("parse_linkedin_search_results", "linkedin_search")}) :
        x \in extract_contact_info(h, resp, c, "linkedin") }

parse_linkedin_search_results(h, resp, req, c) ==
    IF IsLoginUrl(resp.url) THEN {LoginReturn(h)}
    ELSE IF resp.found.relevant_links[c] # <<>>
         THEN {Yield(h, {Req("parse_linkedin_company", "linkedin_company")})}
         ELSE {Yield(h, {Req("parse_linkedin_company", "linkedin_company_direct")})}

parse_linkedin_company(h, resp, req, c) ==
    IF IsLoginUrl(resp.url) THEN {LoginReturn(h)}
    ELSE IF resp.url # "company" THEN {h}
    ELSE LET h1 == IF resp.found.about_links_lower # <<>>
                   THEN Yield(h, {Req("parse_linkedin_about", "linkedin_about")})
                   ELSE Yield(h, {Req("parse_linkedin_about",
                                      "linkedin_about_constructed")})
         IN  {LinkedInUpdate(h1, resp.found.contact_data, c, "linkedin_company")}

\* one round of the loop over contact_sections in parse_linkedin_about; a
\* state of the loop is the state of the callback and contact_data_found
AboutSection(st, section, c) ==
    IF section.keyword
    THEN { LET x1 == Ensure(st.h, c)
               found1 == st.found \/ (email_candidates # <<>> /\ ~HasEmail(x1.rec))
               x2 == SetEmail(x1, email_candidates, Label("linkedin_about", ""))
               found2 == found1 \/ (phone_candidates # <<>> /\ ~HasPhone(x2.rec))
               x3 == SetPhone(x2, phone_candidates, Label("linkedin_about", ""))
           IN  [ h |-> IF found2 THEN save_result(x3) ELSE x3, found |-> found2 ] :
             email_candidates \in section.emails,
             phone_candidates \in section.phones }
    ELSE { st }

\* the part of parse_linkedin_about that runs when no section gave a contact
AboutWholePage(h, resp, c) ==
    LET contact_data == resp.found.contact_data
        h1 == LinkedInUpdate(h, contact_data, c, "linkedin_about")
        website_links == resp.found.website_links
        h2 == IF website_links # <<>>
              THEN Yield(h1, {Req("parse_item", "company_website_from_linkedin")})
              ELSE h1
    IN  IF website_links = <<>> /\ contact_data.email = <<>> /\ contact_data.phone = <<>>
        THEN extract_contact_info(h2, resp, c, "linkedin_about_general")
        ELSE { h2 }

parse_linkedin_about(h, resp, req, c) ==
    IF IsLoginUrl(resp.url) THEN {LoginReturn(h)}
    ELSE LET looped == ForEach({[ h |-> h, found |-> FALSE ]}, resp.found.about_sections,
                               LAMBDA st, section : AboutSection(st, section, c))
         IN  UNION { IF st.found THEN { st.h }
                     ELSE AboutWholePage(st.h, resp, c) : st \in looped }

\* the part of parse_indiamart after extract_contact_info
IndiaMartSearch(h, resp, c) ==
    LET h1 == IF resp.found.product_links # <<>>
              THEN Yield(h, {Req("parse_indiamart_company", "indiamart_company_page")})
              ELSE h
        phones == resp.found.widget_elements
        emails == resp.found.text_emails
        h2 == IF emails # <<>>
              THEN SetEmail(Ensure(h1, c), emails, Label("indiamart", ""))
              ELSE h1
        h3 == IF phones # <<>>
              THEN IF ~HasPhone(Ensure(h2, c).rec)
                   THEN save_result(SetPhone(Ensure(h2, c), phones, Label("indiamart", "")))
                   ELSE Ensure(h2, c)
              ELSE h2
    IN  IF resp.found.inquiry_links # <<>>
        THEN Yield(h3, {Req("parse_indiamart_company", "indiamart_contact")})
        ELSE h3

parse_indiamart(h, resp, req, c) ==
    { IF x.raised THEN x ELSE IndiaMartSearch(x, resp, c) :
        x \in extract_contact_info(h, resp, c, "indiamart") }

\* the part of parse_indiamart_company after extract_contact_info. When no
\* email and no phone is found company_key is not bound, and the test that
\* follows raises UnboundLocalError
IndiaMartCompany(h, resp, c, source) ==
    LET phones == resp.found.widget_texts
        emails == resp.found.mailtos \o resp.found.text_emails
    IN  IF emails = <<>> /\ phones = <<>> THEN Raise(h)
        ELSE LET h1 == save_result(SetPhone(SetEmail(Ensure(h, c), emails,
                                                     Label(source, "")),
                                            phones, Label(source, "")))
             IN  IF IsComplete(h1.rec) THEN h1
                 ELSE LET h2 == GeminiUpdate(h1, resp.found.ai, c, source) IN
                      IF /\ ~h2.raised
                         /\ (h2.gem.returned.email # <<>> \/ h2.gem.returned.phone # <<>>)
                         /\ h2.rec # Absent
                      THEN save_result(h2)
                      ELSE h2

parse_indiamart_company(h, resp, req, c) ==
    { IF x.raised THEN x ELSE IndiaMartCompany(x, resp, c, req.source) :
        x \in extract_contact_info(h, resp, c, req.source) }

\* the part of parse_facebook after extract_contact_info
FacebookPage(h, resp, c) ==
    LET about_links == resp.found.facebook_links
        h1 == IF about_links # <<>>
              THEN Yield(h, {Req("parse_facebook_about", "facebook_about")})
              ELSE h
        h2 == IF resp.url = "pages" /\ about_links = <<>>
              THEN Yield(h1, {Req("parse_facebook_about", "facebook_about_constructed")})
              ELSE h1
        h3 == GeminiUpdate(Ensure(h2, c), resp.found.ai, c, "facebook")
    IN  IF ~h3.raised /\ (h3.gem.returned.email # <<>> \/ h3.gem.returned.phone # <<>>)
        THEN save_result(h3)
        ELSE h3

parse_facebook(h, resp, req, c) ==
    IF IsLoginUrl(resp.url) THEN {LoginReturn(h)}
    ELSE { IF x.raised THEN x ELSE FacebookPage(x, resp, c) :
             x \in extract_contact_info(h, resp, c, "facebook") }

\* one round of the loop over contact_sections in parse_facebook_about
FacebookSection(h, section, c, source) ==
    { SetPhone(SetEmail(Ensure(h, c), section.emails, Label(source, "")),
               phones, Label(source, "")) :
        phones \in section.phones }

\* company_key is bound in the loop: without a section the test after the
\* loop raises UnboundLocalError
parse_facebook_about(h, resp, req, c) ==
    LET sections == resp.found.facebook_sections IN
    UNION { IF x.raised THEN { x }
            ELSE IF sections = <<>> THEN { Raise(x) }
            ELSE { IF HasEmail(y.rec) \/ HasPhone(y.rec) THEN save_result(y) ELSE y :
                     y \in ForEach({x}, sections, LAMBDA z, section :
                                       FacebookSection(z, section, c, req.source)) } :
            x \in extract_contact_info(h, resp, c, req.source) }

\* is_contact_page, on a URL that holds 'contact', one that holds 'about'
\* and the other URLs
is_contact_page(resp) ==
    \/ resp.url \in {"contact", "about"}
    \/ resp.found.title_contact
    \/ resp.found.body_contact

\* the search of the text around the input fields of the contact forms
ContactForm(h, resp, source) ==
    LET has_field == resp.found.has_field
        H1 == IF has_field /\ ~HasEmail(h.rec)
              THEN { IF emails # <<>>
                     THEN [h EXCEPT !.rec.email = emails[1],
                                    !.rec.source = Label(source, "contact form")]
                     ELSE h : emails \in resp.found.form.emails }
              ELSE { h }
    IN  UNION { IF has_field /\ ~HasPhone(x.rec)
                THEN { IF phones # <<>>
                       THEN [x EXCEPT !.rec.phone = phones[1],
                                      !.rec.source = Label(source, "contact form")]
                       ELSE x : phones \in resp.found.form.phones }
                ELSE { x } : x \in H1 }

\* one round of the loop over contact_blocks
ContactBlock(h, block, source) ==
    IF block.keyword
    THEN { SetPhone(SetEmail(h, emails, Label(source, "contact block")),
                    phones, Label(source, "contact block")) :
             emails \in block.emails, phones \in block.phones }
    ELSE { h }

\* one round of the loop over contact_cards
ContactCard(h, card, source) ==
    { SetPhone(SetEmail(h, emails, Label(source, "contact card")),
               phones, Label(source, "contact card")) :
        emails \in card.emails, phones \in card.phones }

\* the part of parse_contact_page after extract_contact_info
ContactPage(h, resp, source) ==
         LET sections == ForEach({h}, resp.found.contact_info,
                            LAMBDA x, section :
                                extract_from_section(x, section, source, "contact section"))
             forms == Bind(sections, LAMBDA x : ContactForm(x, resp, source))
             blocks == ForEach(forms, resp.found.blocks,
                            LAMBDA x, block : ContactBlock(x, block, source))
             cards == ForEach(blocks, resp.found.cards,
                            LAMBDA x, card : ContactCard(x, card, source))
         IN  { IF HasEmail(x.rec) \/ HasPhone(x.rec) THEN save_result(x) ELSE x :
                 x \in cards }

parse_contact_page(h, resp, req, c) ==
    IF ~is_contact_page(resp) THEN { h }
    ELSE UNION { IF x.raised THEN { x } ELSE ContactPage(x, resp, req.source) :
                   x \in extract_contact_info(h, resp, c, req.source) }


\* ------------------------------------------------------------------------
\* The sites of a scenario: no website, nothing on LinkedIn and Facebook,
\* and a listing of the business directory
\* ------------------------------------------------------------------------

T_Listing == <<"C","a","l","l"," ","u","s",":"," ","+","9","1"," ","9","8","7","6","5","4","3","2","1","0">>

P_Listing == <<"+","9","1","9","8","7","6","5","4","3","2","1","0">>

\* the texts the listing of the directory can show
Listings == { T_Listing, T_CallUs }

\* the sites serve whatever a callback can be given
AnySites == [ scenario |-> "any" ]

\* the sites of the scenario with a text on the listing
DirectorySites(listing) == [ scenario |-> "directory", listing |-> listing ]

\* the page of a status 404, which reaches the callback as any other page
\* (HTTPERROR_ALLOW_ALL), at the URL of the request
NotFoundPage(url) == <<<<>>, url>>

\* what a request gets in the scenario, by callback: 404 from the website
\* on every path and every alternative domain, a search page of LinkedIn
\* without a link to a company of a similar name, the login page or 404 for
\* the pages of LinkedIn and Facebook, and the listing from the directory.
\* No page has an "ai" item: the generative model finds nothing on it.
DirectoryServed(listing) ==
    [ parse_start_url |-> { NotFoundPage("site") },
      parse_contact_page |-> { NotFoundPage("contact") },
      parse_item |-> { NotFoundPage("site") },
      parse_linkedin |-> { NotFoundPage("other"), LoginPage },
      parse_linkedin_search_results |->
          { <<<<>>, "search">>, <<<<Link("stranger")>>, "search">> },
      parse_linkedin_company |-> { NotFoundPage("other"), LoginPage },
      parse_linkedin_about |-> { LoginPage },
      parse_indiamart |-> { <<<<Item("body", "text", listing)>>, "site">> },
      parse_indiamart_company |-> { NotFoundPage("site") },
      parse_facebook |-> { NotFoundPage("page"), LoginPage },
      parse_facebook_about |-> { LoginPage } ]

\* the fragments a home page can be made of: a mailto: link and a phone in
\* the footer, an email in a contact element, in an about-us container, in
\* an address element and in a block of structured data, a tel: link and a
\* paragraph of the body, a mailto: link outside the sections, a paragraph
\* with two emails, and what the generative model answers
FragmentItems ==
    { Item("footer", "mailto", T_Sales), Item("footer", "text", T_CallUs),
      Item("contact", "text", T_Hr), Item("about", "text", T_Info),
      Item("address", "text", T_Care), Item("schema", "email", T_Desk),
      Item("body", "tel", L_Local), Item("body", "text", T_Both),
      Item("body", "mailto", T_Sales), Item("body", "text", T_Pair),
      Answer("json", T_Hr, A_UsPhone) }

\* the most fragments on a home page
MaxFragments == 2

\* the pages made of fragments
FragmentsOf(items) == UNION { [1..k -> items] : k \in 1..MaxFragments }

\* the home pages made of fragments
FragmentPages == FragmentsOf(FragmentItems)

\* the sites of a company whose home page is the given page
PageSites(page) == [ scenario |-> "page", page |-> page ]

\* what a request gets from these sites: the home page
PageServed(page) ==
    [ callback \in DOMAIN ServedFor |->
        IF callback = "parse_start_url" THEN { <<page, "site">> } ELSE {} ]

\* the sites on which the requests of one callback of LinkedIn or Facebook
\* are redirected to the login page
WallSites(callback) == [ scenario |-> "wall", walled |-> callback ]

\* what the requests that are not redirected get: no page from the website
\* and the directory, and from LinkedIn and Facebook the pages whose links
\* lead to the next callback
OpenServed ==
    [ parse_start_url |-> { NotFoundPage("site") },
      parse_contact_page |-> { NotFoundPage("contact") },
      parse_item |-> { NotFoundPage("site") },
      parse_linkedin |-> { <<<<Link("about")>>, "company">>, NotFoundPage("other") },
      parse_linkedin_search_results |-> { <<<<Link("company")>>, "search">> },
      parse_linkedin_company |-> { <<<<Link("about")>>, "company">> },
      parse_linkedin_about |-> { <<<<>>, "company">> },
      parse_indiamart |-> { <<<<Link("product")>>, "site">> },
      parse_indiamart_company |-> { NotFoundPage("site") },
      parse_facebook |-> { <<<<Link("about")>>, "page">> },
      parse_facebook_about |-> { <<<<>>, "page">> } ]

\* the login pages: an empty one, and one with an address in its footer
LoginPages == { LoginPage, <<<<Item("footer", "text", T_Sales)>>, "login">> }

WallServed(redirected) ==
    [ callback \in DOMAIN ServedFor |->
        IF callback = redirected THEN LoginPages ELSE OpenServed[callback] ]

T_ContactTitle == <<"C","o","n","t","a","c","t"," ","A","c","m","e"," ","T","o","o","l","s">>

T_AboutTitle == <<"A","b","o","u","t"," ","A","c","m","e"," ","T","o","o","l","s">>

T_AboutMail == <<"A","b","o","u","t"," ","u","s","."," ","E","m","a","i","l",":"," ","i","n","f","o","@","a","c","m","e",".","o","r","g">>

T_Reach == <<"C","o","n","t","a","c","t"," ","c","a","r","e","@","a","c","m","e",".","n","e","t">>

\* what the page a contact-page request ends on can be made of: a title
\* with 'contact', a title with 'about', a paragraph with 'about' and
\* 'email', a paragraph with 'contact' and no indicator word, a paragraph
\* with 'call', and an address in the footer with none of the words
ContactItems ==
    { Item("title", "text", T_ContactTitle), Item("title", "text", T_AboutTitle),
      Item("body", "text", T_AboutMail), Item("body", "text", T_Reach),
      Item("body", "text", T_CallUs), Item("footer", "text", T_Sales) }

\* the pages a contact-page request can end on, with the kind of the final
\* URL: one that holds neither 'contact' nor 'about' (the request has been
\* redirected), and for a page of one item one that holds either word
ContactTargets ==
    (FragmentsOf(ContactItems) \X {"site"})
        \cup ([1..1 -> ContactItems] \X {"contact", "about"})

\* the sites of a company whose contact-page requests end on the target
ContactSites(target) == [ scenario |-> "contact", page |-> target[1], url |-> target[2] ]

\* what a request gets from these sites: 404 for the home page and the
\* target for the contact-page requests
ContactServed(page, url) ==
    [ callback \in DOMAIN ServedFor |->
        IF callback = "parse_start_url" THEN { NotFoundPage("site") }
        ELSE IF callback = "parse_contact_page" THEN { <<page, url>> }
        ELSE {} ]

\* the sites on which every page leads on: the pages of OpenServed, a page
\* of the website with a link to its contact page for parse_item, and an
\* about page of LinkedIn with a link to the website of the company
ChainSites == [ scenario |-> "chain" ]

ChainServed ==
    [ OpenServed EXCEPT
        !.parse_item = { <<<<Link("contact")>>, "site">> },
        !.parse_linkedin_about = { <<<<Link("website")>>, "company">> } ]

\* the sites a run can be on
\* the numbers a phone widget of the directory shows: two that
\* validate_phone_number accepts, with and without dots, and a local one
WidgetNumbers == { <<"+","9","1",".","9","8","2","0","1",".","2","3","4","5","6">>, <<"+","9","1","9","8","2","0","1","2","3","4","5","6">>, <<"9","8","2","0","1","2","3","4","5","6">> }

\* the sites where the listing of the directory shows a number in its phone
\* widget
WidgetSites(number) == [ scenario |-> "widget", number |-> number ]

\* what a request gets from these sites: from the directory a listing with
\* the widget, alone or with an address in its text and a link to a product
WidgetServed(number) ==
    [ OpenServed EXCEPT
        !.parse_indiamart =
            { <<<<Item("widget", "text", number)>>, "site">>,
              <<<<Item("widget", "text", number), Item("body", "text", T_Hr),
                 Link("product")>>, "site">> } ]

Sites ==
    { AnySites } \cup { DirectorySites(listing) : listing \in Listings }
        \cup { PageSites(page) : page \in FragmentPages }
        \cup { WallSites(callback) : callback \in LinkedInCallbacks \cup FacebookCallbacks }
        \cup { ContactSites(target) : target \in ContactTargets }
        \cup { ChainSites }
        \cup { WidgetSites(number) : number \in WidgetNumbers }

\* the pages a request can get from the sites, by callback
ServedOn(sites) ==
    IF sites = AnySites THEN ServedFor
    ELSE IF sites.scenario = "page" THEN PageServed(sites.page)
    ELSE IF sites.scenario = "wall" THEN WallServed(sites.walled)
    ELSE IF sites.scenario = "contact" THEN ContactServed(sites.page, sites.url)
    ELSE IF sites.scenario = "chain" THEN ChainServed
    ELSE IF sites.scenario = "widget" THEN WidgetServed(sites.number)
    ELSE DirectoryServed(sites.listing)

\* the responses a request can get, by the sites and the callback
ResponsesOn ==
    [ sites \in Sites |->
        [ callback \in DOMAIN ServedFor |->
            { Response(served[1], served[2]) :
                served \in ServedOn(sites)[callback] } ] @@ <<>> ] @@ <<>>

\* the responses a request can get, by callback
ResponsesFor == ResponsesOn[AnySites]

\* the most responses that reach a callback in the scenario
ScenarioResponses == 10

\* a number of responses that a run on the sites where every page leads on
\* does not reach
ChainResponses == 40


\* ------------------------------------------------------------------------
\* The crawl
\* ------------------------------------------------------------------------

\* the most responses that reach a callback in a run, for each company of
\* the list
MaxResponses == 3

VARIABLES
    results,    \* self.results: the record of each company, or Absent
    saved,      \* the companies with an attribute saved_<company>
    rows,       \* the rows of the output file
    started,    \* the companies start_requests has made its requests for
    pending,    \* the requests of each company that are scheduled or in flight
    delivered,  \* the responses that have reached a callback
    issued,     \* the requests the last step made, by company
    walled,     \* the networks a callback has found the login page of, by company
    gem,        \* the last call of verify_contact_info
    tried,      \* the networks a request has been made to, by company
    web,        \* what the sites of a scenario serve
    input,      \* the argument of a helper called on its own
    output,     \* what the helper has returned
    company_names,        \* the argument of get_company_details
    stored,               \* the documents of the collection company_details
    company_details,      \* get_company_details: company_details
    db_companies_list,    \* get_company_details: db_companies_list
    companies_to_scrape,  \* get_company_details: companies_to_scrape
    taken,                \* get_company_details: the names the loop has taken
    lookups,              \* the calls of get_google_maps_info, with what came of each
    at,                   \* where get_company_details is
    attempt,    \* search_in_location: attempt
    stage,      \* where search_in_location is
    http,       \* the calls of session.get, with what came of each
    cache,        \* the content of company_cache.json: the names stored by text hash
    extraction,   \* the last call of extract_company_names, with what came of it
    named,        \* the non-empty lists extract_company_names has returned, by text
    extractions,  \* the calls of extract_company_names so far
    urls_or_url,  \* the argument of scrape_emails_with_selenium
    futures,      \* where the call of scrape_emails_from_url of each future is
    all_emails,   \* scrape_emails_with_selenium: all_emails
    drivers,      \* the drivers setup_driver has made, with the calls of quit on each
    mapping       \* what scrape_emails_with_selenium has returned

\* the state of the spider
crawl ==
    <<results, saved, rows, started, pending, delivered, issued, walled, gem, tried>>

\* the state of a helper called on its own
pure == <<input, output>>

\* the state of get_company_details
places ==
    <<company_names, stored, company_details, db_companies_list,
      companies_to_scrape, taken, lookups, at>>

\* the state of search_in_location
search == <<attempt, stage, http>>

\* the state of extract_company_names
extractor == <<cache, extraction, named, extractions>>

\* the state of scrape_emails_with_selenium
selenium == <<urls_or_url, futures, all_emails, drivers, mapping>>

\* the state of the tools that run before the spider
tools == <<extractor, selenium>>

vars == <<crawl, web, pure, places, search, tools>>

\* no helper is called on its own
NoCall == input = <<>> /\ output = <<>>

\* get_company_details is not called
NoLookup ==
    /\ company_names = <<>>
    /\ stored = <<>>
    /\ company_details = <<>>
    /\ db_companies_list = <<>>
    /\ companies_to_scrape = <<>>
    /\ taken = 0
    /\ lookups = <<>>
    /\ at = "idle"

\* search_in_location is not called
NoSearch == attempt = 0 /\ stage = "idle" /\ http = <<>>

\* extract_company_names and scrape_emails_with_selenium are not called
NoTools ==
    /\ cache = <<>> /\ extraction = <<>> /\ named = <<>> /\ extractions = 0
    /\ urls_or_url = <<>> /\ futures = <<>> /\ all_emails = <<>>
    /\ drivers = <<>> /\ mapping = <<>>

\* the sites serve whatever a callback can be given
AnyWeb == web = AnySites

\* the responses a request can get from the sites of the run, by callback
Responses(callback) == ResponsesOn[web][callback]

\* the most responses that reach a callback in the run
ResponseLimit ==
    IF web = AnySites THEN MaxResponses * Cardinality(DOMAIN results)
    ELSE IF web = ChainSites THEN ChainResponses
    ELSE ScenarioResponses

\* the spider after __init__: no record, an output file with its header only
Init ==
    /\ results = [ c \in Companies |-> Absent ]
    /\ saved = {}
    /\ rows = <<Header>>
    /\ started = {}
    /\ pending = [ c \in Companies |-> {} ]
    /\ delivered = 0
    /\ issued = [ c \in Companies |-> {} ]
    /\ walled = [ c \in Companies |-> {} ]
    /\ gem = NotAsked
    /\ tried = [ c \in DOMAIN results |-> {} ]
    /\ AnyWeb /\ NoCall /\ NoLookup /\ NoSearch /\ NoTools

\* the requests a step makes for company c
Issue(c, reqs) == [ k \in DOMAIN pending |-> IF k = c THEN reqs ELSE {} ]

\* start_requests, for one company of self.companies
StartRequests ==
    \E c \in DOMAIN results \ started :
        /\ started' = started \cup {c}
        /\ pending' = [pending EXCEPT ![c] =
               @ \cup { Req("parse_linkedin_search_results", "linkedin_search"),
                        Req("parse_start_url", "company_website") }]
        /\ issued' = Issue(c, { Req("parse_linkedin_search_results", "linkedin_search"),
                                Req("parse_start_url", "company_website") })
        /\ tried' = [tried EXCEPT ![c] = @ \cup {"linkedin", "web"}]
        /\ UNCHANGED <<results, saved, rows, delivered, walled, gem, web, pure, places, search, tools>>

\* A response reaches its callback, which ends in state x
Callback(c, req, x) ==
    /\ results' = [results EXCEPT ![c] = x.rec]
    /\ saved' = IF x.saved THEN saved \cup {c} ELSE saved
    /\ rows' = rows \o x.out
    /\ pending' = [pending EXCEPT ![c] = (@ \ {req}) \cup x.issued]
    /\ delivered' = delivered + 1
    /\ issued' = Issue(c, x.issued)
    /\ walled' = IF x.wall THEN [walled EXCEPT ![c] = @ \cup {Network(req)}] ELSE walled
    /\ gem' = IF x.gem.asked THEN x.gem ELSE gem
    /\ tried' = [tried EXCEPT ![c] = @ \cup { Network(r) : r \in x.issued }]
    /\ UNCHANGED <<started, web, pure, places, search, tools>>

\* the requests of a callback that can be answered now
Due(c, callback) ==
    IF delivered < ResponseLimit
    THEN { req \in pending[c] : req.callback = callback }
    ELSE {}

ParseStartUrl ==
    \E c \in DOMAIN results : \E req \in Due(c, "parse_start_url") :
    \E resp \in Responses("parse_start_url") :
    \E x \in parse_start_url(Enter(results[c], c \in saved), resp, req, c) :
        Callback(c, req, x)

ParseItem ==
    \E c \in DOMAIN results : \E req \in Due(c, "parse_item") :
    \E resp \in Responses("parse_item") :
    \E x \in parse_item(Enter(results[c], c \in saved), resp, req, c, FollowedDepth) :
        Callback(c, req, x)

ParseContactPage ==
    \E c \in DOMAIN results : \E req \in Due(c, "parse_contact_page") :
    \E resp \in Responses("parse_contact_page") :
    \E x \in parse_contact_page(Enter(results[c], c \in saved), resp, req, c) :
        Callback(c, req, x)

ParseLinkedin ==
    \E c \in DOMAIN results : \E req \in Due(c, "parse_linkedin") :
    \E resp \in Responses("parse_linkedin") :
    \E x \in parse_linkedin(Enter(results[c], c \in saved), resp, req, c) :
        Callback(c, req, x)

ParseLinkedinSearchResults ==
    \E c \in DOMAIN results : \E req \in Due(c, "parse_linkedin_search_results") :
    \E resp \in Responses("parse_linkedin_search_results") :
    \E x \in parse_linkedin_search_results(Enter(results[c], c \in saved), resp, req, c) :
        Callback(c, req, x)

ParseLinkedinCompany ==
    \E c \in DOMAIN results : \E req \in Due(c, "parse_linkedin_company") :
    \E resp \in Responses("parse_linkedin_company") :
    \E x \in parse_linkedin_company(Enter(results[c], c \in saved), resp, req, c) :
        Callback(c, req, x)

ParseLinkedinAbout ==
    \E c \in DOMAIN results : \E req \in Due(c, "parse_linkedin_about") :
    \E resp \in Responses("parse_linkedin_about") :
    \E x \in parse_linkedin_about(Enter(results[c], c \in saved), resp, req, c) :
        Callback(c, req, x)

ParseIndiamart ==
    \E c \in DOMAIN results : \E req \in Due(c, "parse_indiamart") :
    \E resp \in Responses("parse_indiamart") :
    \E x \in parse_indiamart(Enter(results[c], c \in saved), resp, req, c) :
        Callback(c, req, x)

ParseIndiamartCompany ==
    \E c \in DOMAIN results : \E req \in Due(c, "parse_indiamart_company") :
    \E resp \in Responses("parse_indiamart_company") :
    \E x \in parse_indiamart_company(Enter(results[c], c \in saved), resp, req, c) :
        Callback(c, req, x)

ParseFacebook ==
    \E c \in DOMAIN results : \E req \in Due(c, "parse_facebook") :
    \E resp \in Responses("parse_facebook") :
    \E x \in parse_facebook(Enter(results[c], c \in saved), resp, req, c) :
        Callback(c, req, x)

ParseFacebookAbout ==
    \E c \in DOMAIN results : \E req \in Due(c, "parse_facebook_about") :
    \E resp \in Responses("parse_facebook_about") :
    \E x \in parse_facebook_about(Enter(results[c], c \in saved), resp, req, c) :
        Callback(c, req, x)

\* handle_error: a request fails (DNS failure, timeout, refused connection)
\* and only a line is logged
HandleError ==
    \E c \in DOMAIN results : \E req \in pending[c] :
        /\ pending' = [pending EXCEPT ![c] = @ \ {req}]
        /\ issued' = Issue(c, {})
        /\ UNCHANGED <<results, saved, rows, started, delivered, walled, gem, tried, web, pure, places, search, tools>>

Next ==
    \/ StartRequests
    \/ ParseStartUrl
    \/ ParseItem
    \/ ParseContactPage
    \/ ParseLinkedin
    \/ ParseLinkedinSearchResults
    \/ ParseLinkedinCompany
    \/ ParseLinkedinAbout
    \/ ParseIndiamart
    \/ ParseIndiamartCompany
    \/ ParseFacebook
    \/ ParseFacebookAbout
    \/ HandleError

Spec == Init /\ [][Next]_vars


\* ------------------------------------------------------------------------
\* verify_contact_info and the step of extract_contact_info that calls it,
\* on their own: the answers of the generative model are drawn from all
\* forms, emails and phones below
\* ------------------------------------------------------------------------

AnswerForms == { "json", "text", "raise", "array" }

AnswerEmails == { <<>>, T_Hr, T_Sales, M_Example, T_Test, A_Mixed, T_Obfuscated }

AnswerPhones == { <<>>, A_UsPhone, A_Digits, P_CallUs, T_Us, L_Local }

Answers ==
    { Answer(form, email, phone) :
        form \in AnswerForms, email \in AnswerEmails, phone \in AnswerPhones }

AnswerScanOf == [ a \in Answers |-> AnswerScan(ModelAnswer(<<a>>)) ] @@ <<>>

\* the records a call can find
StartRecords(c) ==
    { NewRecord(c),
      [NewRecord(c) EXCEPT !.email = T_Sales, !.source = Label("company_website", "footer")],
      [NewRecord(c) EXCEPT !.phone = P_CallUs, !.source = Label("company_website", "footer")] }

InitVerify ==
    /\ results \in { r \in [ Companies -> UNION { StartRecords(c) : c \in Companies } ] :
                       \A c \in Companies : r[c] \in StartRecords(c) }
    /\ saved = {}
    /\ rows = <<Header>>
    /\ started = Companies
    /\ pending = [ c \in Companies |-> {} ]
    /\ delivered = 0
    /\ issued = [ c \in Companies |-> {} ]
    /\ walled = [ c \in Companies |-> {} ]
    /\ gem = NotAsked
    /\ tried = [ c \in DOMAIN results |-> {} ]
    /\ AnyWeb /\ NoCall /\ NoLookup /\ NoSearch /\ NoTools

\* step 3 of extract_contact_info with answer a
AskGemini ==
    \E c \in Companies, a \in Answers :
        LET x == GeminiStep(Enter(results[c], c \in saved), AnswerScanOf[a],
                            "company_website")
        IN  /\ results' = [results EXCEPT ![c] = x.rec]
            /\ gem' = IF x.gem.asked THEN x.gem ELSE gem
            /\ UNCHANGED <<saved, rows, started, pending, delivered, issued, walled, tried, web, pure, places, search, tools>>

NextVerify == AskGemini

SpecVerify == InitVerify /\ [][NextVerify]_vars



\* ------------------------------------------------------------------------
\* Two callbacks of one company that have each found a valid email, in
\* either order: extract_from_section on a footer of the company website
\* and the loop over the contact sections of parse_linkedin_about. Scrapy
\* runs the callbacks in one thread and neither yields between its test of
\* the field and its assignment, so each is one step.
\* ------------------------------------------------------------------------

T_ContactLabel == <<"C","o","n","t","a","c","t",":"," ">>

RaceEmails == { T_Sales, T_Hr, E_Both, T_Info, T_Care, T_Desk }

\* a callback that is still to run, and the text of the section it gets
Carrier(callback, source, text) == [ callback |-> callback, source |-> source, text |-> text ]

\* what extract_from_section finds in a footer with the text
RaceFooter ==
    [ e \in RaceEmails |-> SectionsScan(<<Item("footer", "text", e)>>, "footer")[1] ] @@ <<>>

\* what parse_linkedin_about finds in a contact card with the text
RaceCard ==
    [ e \in RaceEmails |->
        KeywordScan(ItemHtml(Item("card", "text", T_ContactLabel \o e)), AboutKeywords) ] @@ <<>>

InitRace ==
    /\ results = [ c \in Companies |-> Absent ]
    /\ saved = {}
    /\ rows = <<Header>>
    /\ started = Companies
    /\ pending \in { p \in [ Companies ->
                               { { Carrier("parse_start_url", "company_website", e1),
                                   Carrier("parse_linkedin_about", "linkedin_about", e2) } :
                                   e1 \in RaceEmails, e2 \in RaceEmails } ] :
                       \A c \in Companies : \A r1 \in p[c], r2 \in p[c] :
                           r1 # r2 => r1.text # r2.text }
    /\ delivered = 0
    /\ issued = pending
    /\ walled = [ c \in Companies |-> {} ]
    /\ gem = NotAsked
    /\ tried = [ c \in DOMAIN results |-> {} ]
    /\ AnyWeb /\ NoCall /\ NoLookup /\ NoSearch /\ NoTools

\* a callback of the race ends in state x; k is the key of its record
RaceCallback(k, req, x) ==
    /\ results' = [results EXCEPT ![k] = x.rec]
    /\ saved' = IF x.saved THEN saved \cup {k} ELSE saved
    /\ rows' = rows \o x.out
    /\ pending' = [pending EXCEPT ![k] = @ \ {req}]
    /\ delivered' = delivered + 1
    /\ UNCHANGED <<started, issued, walled, gem, tried, web, pure, places, search, tools>>

\* extract_from_section on the footer, as extract_contact_info calls it
FooterStep(k, c) ==
    \E req \in pending[k] :
        /\ req.callback = "parse_start_url"
        /\ \E x \in extract_from_section(Ensure(Enter(results[k], k \in saved), c),
                                         RaceFooter[req.text], req.source, "footer") :
               RaceCallback(k, req, x)

\* the loop over contact_sections of parse_linkedin_about, on one section
AboutStep(k, c) ==
    \E req \in pending[k] :
        /\ req.callback = "parse_linkedin_about"
        /\ \E st \in AboutSection([ h |-> Enter(results[k], k \in saved), found |-> FALSE ],
                                  RaceCard[req.text], c) :
               RaceCallback(k, req, st.h)

RaceFooterSection == \E c \in Companies : FooterStep(c, c)

RaceAboutSection == \E c \in Companies : AboutStep(c, c)

NextRace == RaceFooterSection \/ RaceAboutSection

SpecRace == InitRace /\ [][NextRace]_vars


\* ------------------------------------------------------------------------
\* Two runs of the resolution of one company on the same pages: each run
\* has its own record and its own order of arrival of the two responses
\* ------------------------------------------------------------------------

Runs == { "first run", "second run" }

TheCompany == CHOOSE c \in Companies : TRUE

\* the sections the two callbacks get, the same in both runs
RunPages ==
    { { Carrier("parse_start_url", "company_website", e1),
        Carrier("parse_linkedin_about", "linkedin_about", e2) } :
        e1 \in RaceEmails, e2 \in RaceEmails }

InitRuns ==
    /\ results = [ k \in Runs |-> Absent ]
    /\ saved = {}
    /\ rows = <<Header>>
    /\ started = Runs
    /\ \E pages \in RunPages : pending = [ k \in Runs |-> pages ]
    /\ delivered = 0
    /\ issued = pending
    /\ walled = [ k \in Runs |-> {} ]
    /\ gem = NotAsked
    /\ tried = [ c \in DOMAIN results |-> {} ]
    /\ AnyWeb /\ NoCall /\ NoLookup /\ NoSearch /\ NoTools

RunFooterSection == \E k \in Runs : FooterStep(k, TheCompany)

RunAboutSection == \E k \in Runs : AboutStep(k, TheCompany)

NextRuns == RunFooterSection \/ RunAboutSection

SpecRuns == InitRuns /\ [][NextRuns]_vars

\* ------------------------------------------------------------------------
\* get_company_details: the stored details and the places lookup
\* ------------------------------------------------------------------------

T_Landline == <<"0","2","2"," ","4","0","0","0"," ","1","2","3","4">>

T_Success == <<"G","o","o","g","l","e"," ","M","a","p","s"," ","S","u","c","c","e","s","s">>

T_InIndia == <<" ","i","n"," ","I","n","d","i","a">>

T_Address == <<"1","2"," ","M","G"," ","R","o","a","d",","," ","P","u","n","e">>

T_NotFound == <<"P","l","a","c","e"," ","n","o","t"," ","f","o","u","n","d"," ","i","n"," ","g","l","o","b","a","l"," ","s","e","a","r","c","h">>

\* the status of a connection that failed three times, with the text
\* requests gives a ConnectionError
T_ConnectionError ==
    <<"C","o","n","n","e","c","t","i","o","n"," ","E","r","r","o","r"," ","a","f","t","e","r"," ","3"," ","a","t","t","e","m","p","t","s",":"," ","H","T","T","P","S","C","o","n","n","e","c","t","i","o","n","P","o","o","l","(","h","o","s","t","=","'","m","a","p","s",".","g","o","o","g","l","e","a","p","i","s",".","c","o","m","'",","," ","p","o","r","t","=","4","4","3",")",":"," ","M","a","x"," ","r","e","t","r","i","e","s"," ","e","x","c","e","e","d","e","d">>

T_Host == <<"h","o","s","t","=","'","m","a","p","s",".","g","o","o","g","l","e","a","p","i","s",".","c","o","m","'",","," ","p","o","r","t","=","4","4","3">>

\* the fields get_company_details_from_mongodb reads of a document
DetailFields == {"emails", "phones", "website", "address"}

\* the entry of a company in company_details
Details(emails, phones, website, address) ==
    [ emails |-> emails, phones |-> phones, website |-> website,
      address |-> address ]

\* the entry the except branch stores
EmptyDetails == Details(<<>>, <<>>, "", <<>>)

\* document.get(field, default)
DocumentGet(document, field, default) ==
    IF field \in DOMAIN document THEN document[field] ELSE default

\* the documents a company can have in the collection: one with every field
\* and one with its phones only
StoredDocuments ==
    { [ emails |-> <<T_Hr>>, phones |-> <<P_CallUs>>,
        website |-> "http://www.acme.in", address |-> T_Address ],
      [ phones |-> <<P_Both>> ] }

\* what the collection can hold: a document for some of the companies, with
\* the database reachable (up) or not
Collections ==
    UNION { { [ up |-> up, docs |-> d ] : d \in [ S -> StoredDocuments ] } :
            up \in BOOLEAN, S \in SUBSET BatchCompanies }

\* the lists of names get_company_details can be given
NameLists ==
    { <<c>> : c \in BatchCompanies } \cup
    { p \in BatchCompanies \X BatchCompanies : p[1] # p[2] }

\* the names of a list that satisfy a test, in the order of the list
NamesWhere(names, S) == SelectSeq(names, LAMBDA n : n \in S)

\* the names of a list
NamesOf(names) == { names[k] : k \in 1..Len(names) }

\* get_company_details_from_mongodb finding no document
get_company_details_from_mongodb_none(names, collection) == <<>>

\* get_company_details_from_mongodb: {} without a connection, and else the
\* details of each name that has a document
get_company_details_from_mongodb(names, collection) ==
    IF ~collection.up THEN <<>>
    ELSE [ n \in NamesOf(names) \cap DOMAIN collection.docs |->
             Details(DocumentGet(collection.docs[n], "emails", <<>>),
                     DocumentGet(collection.docs[n], "phones", <<>>),
                     DocumentGet(collection.docs[n], "website", ""),
                     DocumentGet(collection.docs[n], "address", <<>>)) ]

\* what get_google_maps_info returns: (phone, website, status)
PlaceInfo(phone, website, status) ==
    [ raised |-> FALSE, phone |-> phone, website |-> website, status |-> status ]

\* what a call of get_google_maps_info can come to: a place with its phone,
\* website and address, a place with a phone only, no place, a failed
\* connection, and an exception
LookupOutcomes ==
    { PlaceInfo(T_Landline, "http://www.acme-tools.com",
               T_Success \o <<" ", "(">> \o T_Address \o <<")">>),
      PlaceInfo(T_Landline, "", T_Success \o T_InIndia),
      PlaceInfo(<<>>, "", T_NotFound),
      PlaceInfo(<<>>, "", T_ConnectionError),
      [ raised |-> TRUE ] }

\* status[status.find("(")+1:status.find(")")] when both are in status
AddressOf(status) ==
    IF Contains(status, <<"(">>) /\ Contains(status, <<")">>)
    THEN SubSeq(status, FindFirst(status, <<"(">>) + 2, FindFirst(status, <<")">>))
    ELSE <<>>

\* the entry an iteration of the loop stores for what the lookup came to
StoredFor(outcome) ==
    IF outcome.raised THEN EmptyDetails
    ELSE Details(<<>>,
                 IF outcome.phone # <<>> THEN <<outcome.phone>> ELSE <<>>,
                 outcome.website,
                 AddressOf(outcome.status))

\* get_company_details up to its loop: the stored details are fetched, and
\* the function returns at once when no name is left
GetCompanyDetails ==
    /\ at = "called"
    /\ LET existing_company_details ==
               get_company_details_from_mongodb(company_names, stored)
           to_scrape ==
               NamesWhere(company_names,
                          NamesOf(company_names) \ DOMAIN existing_company_details)
       IN  /\ db_companies_list' =
                  NamesWhere(company_names, DOMAIN existing_company_details)
           /\ company_details' = existing_company_details
           /\ companies_to_scrape' = to_scrape
           /\ at' = IF to_scrape = <<>> THEN "returned" ELSE "loop"
    /\ taken' = 0
    /\ UNCHANGED <<company_names, stored, lookups, crawl, web, pure, search, tools>>

\* one iteration of  for i, company_name in enumerate(companies_to_scrape)
LookupCompany ==
    /\ at = "loop"
    /\ \E outcome \in LookupOutcomes :
           LET company_name == companies_to_scrape[taken + 1]
           IN  /\ lookups' = Append(lookups, [ name |-> company_name, outcome |-> outcome ])
               /\ company_details' =
                      [ n \in DOMAIN company_details \cup {company_name} |->
                          IF n = company_name THEN StoredFor(outcome)
                          ELSE company_details[n] ]
    /\ taken' = taken + 1
    /\ at' = IF taken + 1 = Len(companies_to_scrape) THEN "returned" ELSE "loop"
    /\ UNCHANGED <<company_names, stored, db_companies_list, companies_to_scrape,
                   crawl, web, pure, search, tools>>

\* the spider after __init__ on a list of the given companies
Spider(companies) ==
    /\ results = [ c \in companies |-> Absent ]
    /\ saved = {}
    /\ rows = <<Header>>
    /\ started = {}
    /\ pending = [ c \in companies |-> {} ]
    /\ delivered = 0
    /\ issued = [ c \in companies |-> {} ]
    /\ walled = [ c \in companies |-> {} ]
    /\ gem = NotAsked
    /\ tried = [ c \in DOMAIN results |-> {} ]

\* get_company_details called with a list of names and a collection
Called(names, collection) ==
    /\ company_names = names
    /\ stored = collection
    /\ company_details = <<>>
    /\ db_companies_list = <<>>
    /\ companies_to_scrape = <<>>
    /\ taken = 0
    /\ lookups = <<>>
    /\ at = "called"

\* get_company_details is called with a list of names, the spider not run
InitPlaces ==
    /\ Spider({})
    /\ AnyWeb /\ NoCall /\ NoSearch /\ NoTools
    /\ \E names \in NameLists, collection \in Collections :
           Called(names, collection)

NextPlaces == GetCompanyDetails \/ LookupCompany

SpecPlaces == InitPlaces /\ [][NextPlaces]_vars

\* ------------------------------------------------------------------------
\* A list of two companies: the spider and get_company_details
\* ------------------------------------------------------------------------

\* the two programs that are given a list of companies, each run on its
\* own: the spider of company_scraper.py on a companylist.csv of two
\* companies, and get_company_details called by the app with the two names
\* and none of them stored
InitBatch ==
    /\ AnyWeb /\ NoCall /\ NoSearch /\ NoTools
    /\ \/ Spider(BatchCompanies) /\ NoLookup
       \/ /\ Spider({})
          /\ \E names \in { n \in NameLists : Len(n) = 2 } :
                 Called(names, [ up |-> TRUE, docs |-> <<>> ])

\* the websites of the two companies do not answer: their requests stay in
\* flight or fail, and the responses that arrive are those of LinkedIn
NextBatch ==
    \/ StartRequests
    \/ ParseLinkedinSearchResults
    \/ ParseLinkedinCompany
    \/ ParseLinkedinAbout
    \/ HandleError
    \/ GetCompanyDetails
    \/ LookupCompany

SpecBatch == InitBatch /\ [][NextBatch]_vars

\* ------------------------------------------------------------------------
\* The spider on the sites of the scenario
\* ------------------------------------------------------------------------

InitScenario ==
    /\ Spider(Companies)
    /\ NoCall /\ NoLookup /\ NoSearch /\ NoTools
    /\ \E listing \in Listings : web = DirectorySites(listing)

\* every request gets its response, none fails. No response of the scenario
\* has a link to an about page or to a page of the directory, so that
\* parse_linkedin_about, parse_facebook_about and parse_indiamart_company
\* get no request
NextScenario ==
    \/ StartRequests
    \/ ParseStartUrl
    \/ ParseItem
    \/ ParseContactPage
    \/ ParseLinkedin
    \/ ParseLinkedinSearchResults
    \/ ParseLinkedinCompany
    \/ ParseIndiamart
    \/ ParseFacebook

SpecScenario == InitScenario /\ [][NextScenario]_vars

\* ------------------------------------------------------------------------
\* The spider on a company whose home page is made of given fragments
\* ------------------------------------------------------------------------

InitPage ==
    /\ Spider(Companies)
    /\ NoCall /\ NoLookup /\ NoSearch /\ NoTools
    /\ \E page \in FragmentPages : web = PageSites(page)

\* the home page answers; the other requests stay in flight
NextPage == StartRequests \/ ParseStartUrl

SpecPage == InitPage /\ [][NextPage]_vars

\* ------------------------------------------------------------------------
\* The spider when the requests of one callback get the login page
\* ------------------------------------------------------------------------

InitWall ==
    /\ Spider(Companies)
    /\ NoCall /\ NoLookup /\ NoSearch /\ NoTools
    /\ \E callback \in LinkedInCallbacks \cup FacebookCallbacks :
           web = WallSites(callback)

SpecWall == InitWall /\ [][Next]_vars

\* ------------------------------------------------------------------------
\* A run on the sites where the contact-page requests end on one page
\* ------------------------------------------------------------------------

InitContact ==
    /\ Spider(Companies)
    /\ NoCall /\ NoLookup /\ NoSearch /\ NoTools
    /\ \E target \in ContactTargets : web = ContactSites(target)

NextContact == StartRequests \/ ParseStartUrl \/ ParseContactPage

SpecContact == InitContact /\ [][NextContact]_vars

\* ------------------------------------------------------------------------
\* A run on the sites where every page leads on. Scrapy answers every
\* request it has scheduled, with a response or with a failure: a step of
\* the run is taken as long as one can be
\* ------------------------------------------------------------------------

InitChain ==
    /\ Spider(Companies)
    /\ NoCall /\ NoLookup /\ NoSearch /\ NoTools
    /\ web = ChainSites

SpecChain == InitChain /\ [][Next]_vars /\ WF_vars(Next)

\* ------------------------------------------------------------------------
\* A run on the sites where the directory shows a number in its phone widget
\* ------------------------------------------------------------------------

InitWidget ==
    /\ Spider(Companies)
    /\ NoCall /\ NoLookup /\ NoSearch /\ NoTools
    /\ \E number \in WidgetNumbers : web = WidgetSites(number)

SpecWidget == InitWidget /\ [][Next]_vars

\* ------------------------------------------------------------------------
\* The helpers called on their own
\* ------------------------------------------------------------------------

\* the helper has not returned
NotReturned == [ returned |-> FALSE ]

\* a call of a helper with a text
Call(op, text) == [ op |-> op, text |-> text ]

\* what a helper has returned
Return(value) == [ returned |-> TRUE, value |-> value ]

\* blocks of five digits
FiveDigits ==
    { <<"9","8","2","0","1">>, <<"2","3","4","5","6">>, <<"9","9","9","9","9">>, <<"9","8","7","6","5">>, <<"4","3","2","1","0">>, <<"1","1","1","1","1">>,
      <<"1","2","3","4","5">>, <<"6","7","8","9","0">> }

\* the numbers of ten digits made of two blocks
TenDigits == { a \o b : a \in FiveDigits, b \in FiveDigits }

T_EightOnes == <<"1","1","1","1","1","1","1","1">>

\* texts that contain 11111111
WithEightOnes ==
    { a \o T_EightOnes \o b :
        a \in { <<>>, <<"+">>, <<"+","9","1"," ">>, <<"+","1"," ","(","4">>, <<"C","a","l","l"," ","+","4","4"," ">> },
        b \in { <<>>, <<"9","8">>, <<" ","2","3","4","5">>, <<"-","1","1","1","1">> } }

\* targets of tel: links: the numbers of ten digits, and a number with 00,
\* with its country code and no sign, with a sign, and with separators
TelTargets ==
    TenDigits \cup { <<"0","0","9","1","9","8","2","0","1","2","3","4","5","6">>, <<"9","1","9","8","2","0","1","2","3","4","5","6">>, <<"+","9","1","9","8","2","0","1","2","3","4","5","6">>,
                     <<" ","+","9","1"," ","9","8","2","0","1","-","2","3","4","5","6"," ">> }

\* the calls of the phone helpers: validate_phone_number on '+91' and ten
\* digits and on a text with 11111111, the tel: branch of
\* extract_contacts_from_html and the tel: branch of extract_from_section
\* on the target of a link
PhoneCalls ==
    { Call("validate_phone_number", <<"+","9","1">> \o t) : t \in TenDigits }
        \cup { Call("validate_phone_number", t) : t \in WithEightOnes }
        \cup { Call("tel", t) : t \in TelTargets }
        \cup { Call("section_tel", t) : t \in TelTargets }

InitPhone ==
    /\ Spider({})
    /\ AnyWeb /\ NoLookup /\ NoSearch /\ NoTools
    /\ input \in PhoneCalls
    /\ output = NotReturned

\* validate_phone_number(phone)
ValidatePhoneNumber ==
    /\ input.op = "validate_phone_number"
    /\ output = NotReturned
    /\ output' = Return(validate_phone_number(input.text))
    /\ UNCHANGED <<input, crawl, web, places, search, tools>>

\* the body of  for link in tel_links  in extract_contacts_from_html, with
\* '' when nothing is appended to contacts['phones']
TelLink ==
    /\ input.op = "tel"
    /\ output = NotReturned
    /\ output' = Return(clean_phone_number(TelNormalize(input.text)))
    /\ UNCHANGED <<input, crawl, web, places, search, tools>>

\* the body of  for match in tel_matches  in extract_from_section, on the
\* lower-cased HTML of the section, with '' when nothing is appended to phones
SectionTelLink ==
    /\ input.op = "section_tel"
    /\ output = NotReturned
    /\ output' = Return(CleanTel(Lower(input.text)))
    /\ UNCHANGED <<input, crawl, web, places, search, tools>>

NextPhone == ValidatePhoneNumber \/ TelLink \/ SectionTelLink

SpecPhone == InitPhone /\ [][NextPhone]_vars

\* phones as they stand in a text
PhoneTexts == { <<"+","1"," ","2","1","2"," ","5","5","5"," ","0","1","8","7">>, <<"+","9","1"," ","9","8","2","0","1"," ","2","3","4","5","6">>, <<"+","4","4","2","0","7","9","4","6","0","9","5","8">> }

\* a text of sixty characters without an indicator
T_Filler == <<" ","i","s"," ","t","h","e"," ","d","e","s","k"," ","o","f"," ","o","u","r"," ","o","f","f","i","c","e"," ","i","n"," ","t","h","e"," ","c","i","t","y"," ","a","n","d"," ","o","f"," ","t","h","e"," ","w","a","r","e","h","o","u","s","e",",">>

\* the calls of extract_phones_from_content: one or two phones after a word
\* that is an indicator or none, the second phone next to the first or
\* sixty characters further
PhoneListCalls ==
    { Call("extract_phones_from_content", lead \o first \o gap \o second) :
        lead \in { <<>>, <<"C","a","l","l"," ">>, <<"F","a","x",":"," ">> },
        first \in PhoneTexts \cup { <<>> },
        gap \in { <<","," ">>, T_Filler },
        second \in PhoneTexts \cup { <<>> } }

InitPhoneLists ==
    /\ Spider({})
    /\ AnyWeb /\ NoLookup /\ NoSearch /\ NoTools
    /\ input \in PhoneListCalls
    /\ output = NotReturned

\* extract_phones_from_content(content): one of the lists it can return
ExtractPhonesFromContent ==
    /\ input.op = "extract_phones_from_content"
    /\ output = NotReturned
    /\ \E phones \in extract_phones_from_content(input.text) :
           output' = Return(phones)
    /\ UNCHANGED <<input, crawl, web, places, search, tools>>

NextPhoneLists == ExtractPhonesFromContent

SpecPhoneLists == InitPhoneLists /\ [][NextPhoneLists]_vars

T_InfoCoIn == <<"i","n","f","o","@","a","c","m","e",".","c","o",".","i","n">>

T_TestAtTest == <<"t","e","s","t","@","t","e","s","t",".","c","o","m">>

\* addresses that pass the three filters of extract_emails_from_content
PlainAddresses == { T_Sales, T_Hr, T_InfoCoIn, T_Care, T_Desk }

\* an address for each entry of the list of placeholders: the entry itself
\* where it is a domain, an address of that local part where it ends with @
PlaceholderAddresses ==
    { T_TestAtTest, M_Example, <<"i","n","f","o","@","e","x","a","m","p","l","e",".","o","r","g">>, <<"h","e","l","l","o","@","y","o","u","r","d","o","m","a","i","n",".","c","o","m">>,
      <<"h","e","l","l","o","@","d","o","m","a","i","n",".","c","o","m">>, <<"h","e","l","l","o","@","e","m","a","i","l",".","c","o","m">>, <<"h","e","l","l","o","@","t","e","s","t",".","c","o","m">>,
      <<"s","o","m","e","o","n","e","@","a","c","m","e",".","i","n">>, <<"u","s","e","r","@","a","c","m","e",".","i","n">>, <<"n","a","m","e","@","a","c","m","e",".","i","n">>,
      <<"y","o","u","r","@","a","c","m","e",".","i","n">>, <<"e","m","a","i","l","@","a","c","m","e",".","i","n">>, <<"t","e","s","t","@","a","c","m","e",".","i","n">> }

\* the ways '@' is written in an obfuscated address
AtWords == { <<"[","a","t","]">>, <<"(","a","t",")">>, <<"{","a","t","}">>, <<" ","[","a","t","]"," ">>, <<" ","(","a","t",")"," ">>, <<" ","{","a","t","}"," ">> }

\* the ways '.' is written in an obfuscated address
DotWords == { <<"[","d","o","t","]">>, <<"(","d","o","t",")">>, <<"{","d","o","t","}">>, <<" ","[","d","o","t","]"," ">>, <<" ","(","d","o","t",")"," ">>, <<" ","{","d","o","t","}"," ">> }

\* an address with its '@' and its dots written as the two words
Spell(email, at_word, dot_word) ==
    LET spelled[k \in 0..Len(email)] ==
            IF k = 0 THEN <<>>
            ELSE spelled[k - 1] \o (IF email[k] = "@" THEN at_word
                                    ELSE IF email[k] = "." THEN dot_word
                                    ELSE <<email[k]>>)
    IN  spelled[Len(email)]

\* a call of extract_emails_from_content on a text made of an address
Extract(form, email, text) ==
    [ op |-> "extract_emails_from_content", form |-> form, email |-> email,
      text |-> text ]

\* the calls of extract_emails_from_content: a text around an address in
\* its standard form, an obfuscated address, and a placeholder alone
EmailCalls ==
    { Extract("standard", e, before \o e \o after) :
        e \in PlainAddresses,
        before \in { <<>>, <<"E","m","a","i","l",":"," ">>, <<"W","r","i","t","e"," ","t","o"," ">> },
        after \in { <<>>, <<" ","t","o","d","a","y">>, <<".">> } }
      \cup { Extract("obfuscated", e, Spell(e, a, d)) :
               e \in PlainAddresses, a \in AtWords, d \in DotWords }
      \cup { Extract("placeholder", e, e) : e \in PlaceholderAddresses }

InitEmail ==
    /\ Spider({})
    /\ AnyWeb /\ NoLookup /\ NoSearch /\ NoTools
    /\ input \in EmailCalls
    /\ output = NotReturned

\* extract_emails_from_content(content)
ExtractEmailsFromContent ==
    /\ input.op = "extract_emails_from_content"
    /\ output = NotReturned
    /\ output' = Return(extract_emails_from_content(input.text))
    /\ UNCHANGED <<input, crawl, web, places, search, tools>>

NextEmail == ExtractEmailsFromContent

SpecEmail == InitEmail /\ [][NextEmail]_vars

\* ------------------------------------------------------------------------
\* search_in_location: the loop of attempts and the two calls of session.get
\* ------------------------------------------------------------------------

\* max_retries = 3
max_retries == 3

\* verify_phone_number: at least 7 digits
MinPlaceDigits == 7

verify_phone_number(phone) == Len(DigitsOnly(phone)) >= MinPlaceDigits

T_ShortPhone == <<"1","2","3","4","5">>

T_Denied == <<"R","E","Q","U","E","S","T","_","D","E","N","I","E","D">>

T_Html == <<"<","h","t","m","l",">","F","o","r","b","i","d","d","e","n","<","/","h","t","m","l",">">>

T_Reset == <<"C","o","n","n","e","c","t","i","o","n"," ","r","e","s","e","t"," ","b","y"," ","p","e","e","r">>

\* the triple search_in_location returns
Triple(phone, website, status) ==
    [ phone |-> phone, website |-> website, status |-> status ]

\* the value of a function that ends without a return statement
None == [ none |-> TRUE ]

\* a call of search_in_location
SearchCall(city, country) ==
    [ op |-> "search_in_location", city |-> city, country |-> country ]

\* the calls get_google_maps_info makes: in India, and without a location
SearchCalls == { SearchCall(<<>>, <<"I","n","d","i","a">>), SearchCall(<<>>, <<>>) }

\* session.get(...) or what follows it raises an exception of a class
Raises(class) == [ raises |-> class ]

\* the classes of the three except clauses that retry
Transient == { "SSLError", "ConnectionError", "Timeout" }

\* the exceptions session.get and response.json() can raise: the three of
\* the except clauses, RetryError when the adapter has used its retries on
\* a status 429, 500, 502, 503 or 504, and JSONDecodeError
Exceptions == Transient \cup { "RetryError", "JSONDecodeError" }

\* a response with its status code, its text and the object of its JSON
Answered(status_code, text, data) ==
    [ raises |-> "", status_code |-> status_code, text |-> text, data |-> data ]

\* what the request of findplacefromtext can come to
FindOutcomes ==
    { Raises(class) : class \in Exceptions } \cup
    { Answered(200, <<>>, [ candidates |-> <<[ place_id |-> "p1" ]>> ]),
      Answered(200, <<>>, [ candidates |-> <<>> ]),
      Answered(200, <<>>, [ status |-> "ZERO_RESULTS" ]),
      Answered(200, <<>>, [ candidates |-> <<>>, error_message |-> T_Denied ]),
      Answered(403, T_Html, [ status |-> "REQUEST_DENIED" ]),
      Answered(200, <<>>, [ candidates |-> <<[ name |-> "no id" ]>> ]) }

\* what the request of place/details can come to
DetailsOutcomes ==
    { Raises(class) : class \in Exceptions } \cup
    { Answered(200, <<>>, [ result |->
          [ formatted_phone_number |-> T_Landline,
            website |-> "http://www.acme-tools.com",
            formatted_address |-> T_Address ] ]),
      Answered(200, <<>>, [ result |-> [ formatted_phone_number |-> T_ShortPhone ] ]),
      Answered(200, <<>>, [ status |-> "NOT_FOUND" ]),
      Answered(200, <<>>, [ error_message |-> T_Denied ]),
      Answered(500, T_Html, [ status |-> "UNKNOWN_ERROR" ]) }

\* d.get(key, default)
Get(d, key, default) == IF key \in DOMAIN d THEN d[key] ELSE default

\* if attempt < max_retries - 1, with the test always true
RetriesLeftAlways(k) == TRUE

\* if attempt < max_retries - 1
RetriesLeft(k) == k < max_retries - 1

\* the text str() gives of an exception
ErrorText(class) == T_Reset

\* the return of an except clause that does not retry
ErrorReturn(class) ==
    IF class = "SSLError"
    THEN Triple(<<>>, "", <<"S","S","L"," ","E","r","r","o","r"," ","a","f","t","e","r"," ","3"," ","a","t","t","e","m","p","t","s",":"," ">> \o ErrorText(class))
    ELSE IF class = "ConnectionError"
    THEN Triple(<<>>, "", <<"C","o","n","n","e","c","t","i","o","n"," ","E","r","r","o","r"," ","a","f","t","e","r"," ","3"," ","a","t","t","e","m","p","t","s",":"," ">> \o ErrorText(class))
    ELSE IF class = "Timeout"
    THEN Triple(<<>>, "", <<"T","i","m","e","o","u","t"," ","E","r","r","o","r"," ","a","f","t","e","r"," ","3"," ","a","t","t","e","m","p","t","s",":"," ">> \o ErrorText(class))
    ELSE Triple(<<>>, "", <<"G","o","o","g","l","e"," ","M","a","p","s"," ","e","x","c","e","p","t","i","o","n",":"," ">> \o ErrorText(class))

\* the function returns value
Returns(value) ==
    /\ output' = Return(value)
    /\ stage' = "done"
    /\ attempt' = attempt

\* continue: the next attempt of  for attempt in range(max_retries), and
\* the end of the function without a return when the range is used up
Continue ==
    IF attempt + 1 < max_retries
    THEN /\ attempt' = attempt + 1
         /\ stage' = "find"
         /\ output' = output
    ELSE /\ attempt' = attempt + 1
         /\ stage' = "done"
         /\ output' = Return(None)

\* the except clauses
Except(class) ==
    IF class \in Transient /\ RetriesLeft(attempt)
    THEN Continue
    ELSE Returns(ErrorReturn(class))

\* the text after "Place not found in "
PlaceText(country) == IF country # <<>> THEN country ELSE <<"g","l","o","b","a","l"," ","s","e","a","r","c","h">>

\* location_text
LocationText(country, address) ==
    IF address # <<>> THEN <<" ","(">> \o address \o <<")">>
    ELSE IF country # <<>> THEN <<" ","i","n"," ">> \o country
    ELSE <<>>

\* a call of session.get
Sent(request, outcome) ==
    [ request |-> request, attempt |-> attempt, outcome |-> outcome ]

InitSearch ==
    /\ Spider({})
    /\ AnyWeb /\ NoLookup /\ NoTools
    /\ input \in SearchCalls
    /\ output = NotReturned
    /\ attempt = 0
    /\ stage = "find"
    /\ http = <<>>

\* an attempt up to  place_id = candidates[0]["place_id"]
FindPlace ==
    /\ stage = "find"
    /\ \E outcome \in FindOutcomes :
           /\ http' = Append(http, Sent("findplacefromtext", outcome))
           /\ IF outcome.raises # "" THEN Except(outcome.raises)
              ELSE IF outcome.status_code # 200 \/ "error_message" \in DOMAIN outcome.data
              THEN Returns(Triple(<<>>, "",
                       <<"G","o","o","g","l","e"," ","M","a","p","s"," ","e","r","r","o","r",":"," ">>
                           \o Get(outcome.data, "error_message", outcome.text)))
              ELSE LET candidates == Get(outcome.data, "candidates", <<>>) IN
                   IF candidates = <<>>
                   THEN Returns(Triple(<<>>, "",
                            <<"P","l","a","c","e"," ","n","o","t"," ","f","o","u","n","d"," ","i","n"," ">> \o PlaceText(input.country)))
                   ELSE IF "place_id" \notin DOMAIN candidates[1]
                   THEN Except("KeyError")
                   ELSE /\ stage' = "details"
                        /\ UNCHANGED <<attempt, output>>
    /\ UNCHANGED <<input, crawl, web, places, tools>>

\* the rest of the attempt, from the request of the details
PlaceDetails ==
    /\ stage = "details"
    /\ \E outcome \in DetailsOutcomes :
           /\ http' = Append(http, Sent("details", outcome))
           /\ IF outcome.raises # "" THEN Except(outcome.raises)
              ELSE IF outcome.status_code # 200 \/ "error_message" \in DOMAIN outcome.data
              THEN Returns(Triple(<<>>, "",
                       <<"D","e","t","a","i","l","s"," ","e","r","r","o","r",":"," ">>
                           \o Get(outcome.data, "error_message", outcome.text)))
              ELSE LET result == Get(outcome.data, "result", <<>>)
                       found == Get(result, "formatted_phone_number", <<>>)
                       phone == IF found # <<>> /\ ~verify_phone_number(found)
                                THEN <<>> ELSE found
                       website == Get(result, "website", "")
                       address == Get(result, "formatted_address", <<>>)
                   IN  Returns(Triple(phone, website,
                           T_Success \o LocationText(input.country, address)))
    /\ UNCHANGED <<input, crawl, web, places, tools>>

NextSearch == FindPlace \/ PlaceDetails

SpecSearch == InitSearch /\ [][NextSearch]_vars

\* ------------------------------------------------------------------------
\* parse_linkedin_search_results: the requests it makes for the links of a
\* page of search results
\* ------------------------------------------------------------------------

\* the most links on a page of search results
MaxLinks == 4

\* relevant_links[:3]
MaxCompanyPages == 3

L_Exact == <<"/","c","o","m","p","a","n","y","/","a","c","m","e","-","t","o","o","l","s">>

L_Short == <<"/","c","o","m","p","a","n","y","/","a","c","m","e">>

L_Long == <<"/","c","o","m","p","a","n","y","/","a","c","m","e","-","t","o","o","l","s","-","i","n","d","i","a">>

L_Joined == <<"/","c","o","m","p","a","n","y","/","a","c","m","e","t","o","o","l","s","?","t","r","k","=","s","r","p">>

L_Other == <<"/","c","o","m","p","a","n","y","/","z","e","n","i","t","h">>

L_Person == <<"/","i","n","/","a","c","m","e","-","t","o","o","l","s">>

T_LinkedIn == <<"h","t","t","p","s",":","/","/","w","w","w",".","l","i","n","k","e","d","i","n",".","c","o","m">>

\* the links the selectors can find on the page
SearchLinks == { L_Exact, L_Short, L_Long, L_Joined, L_Other, L_Person }

\* a call of parse_linkedin_search_results: the links of the response, the
\* kind of its URL and the name of the company
SearchResponse(links, url, name) ==
    [ op |-> "parse_linkedin_search_results", links |-> links, url |-> url, name |-> name ]

\* the responses: a page of search results, and the login page
SearchResponses ==
    { SearchResponse(links, "search", NameText[c]) :
        links \in UNION { [1..k -> SearchLinks] : k \in 0..MaxLinks }, c \in Companies }
    \cup { SearchResponse(<<>>, "login", NameText[c]) : c \in Companies }

\* set(name.lower().split())
WordSet(name) == { w \in Range(SplitAt(Lower(name), " ")) : w # <<>> }

\* the same, with the words of the first name in the place of the union
similarity_score_of_first(name1, name2) ==
    LET words1 == WordSet(name1)
        words2 == WordSet(name2)
    IN  IF words1 = {} \/ words2 = {} THEN <<0, 1>>
        ELSE <<Cardinality(words1 \cap words2), Cardinality(words1)>>

\* similarity_score, as the pair of the numerator and the denominator
similarity_score(name1, name2) ==
    LET words1 == WordSet(name1)
        words2 == WordSet(name2)
    IN  IF words1 = {} \/ words2 = {} THEN <<0, 1>>
        ELSE <<Cardinality(words1 \cap words2), Cardinality(words1 \cup words2)>>

\* a < b for two scores
ScoreLess(a, b) == a[1] * b[2] < b[1] * a[2]

\* if '?' in link: link = link.split('?')[0]
CleanLink(link) == SplitAt(link, "?")[1]

\* (url_company_name, full_url)
Relevant(link) ==
    [ name |-> UrlCompanyName(CleanLink(link)), url |-> T_LinkedIn \o CleanLink(link) ]

\* relevant_links before it is sorted
relevant_links(links, name) ==
    MapSeq(Relevant,
           SelectSeq(SelectSeq(links, LAMBDA link : Contains(link, S_company)),
                     LAMBDA link : similar_names(UrlCompanyName(CleanLink(link)), name)))

\* the list with x at its end: a sort that leaves the list as it is
InsertLast(sorted, x, name) == Append(sorted, x)

\* x put into a list sorted by falling score, after the entries whose score
\* is not less than its own (the sort is stable)
InsertByScore(sorted, x, name) ==
    LET k == Cardinality({ i \in 1..Len(sorted) :
                 ~ScoreLess(similarity_score(sorted[i].name, name),
                            similarity_score(x.name, name)) })
    IN  SubSeq(sorted, 1, k) \o <<x>> \o SubSeq(sorted, k + 1, Len(sorted))

\* relevant_links.sort(key=lambda x: self.similarity_score(x[0], name), reverse=True)
RECURSIVE SortByScore(_, _)
SortByScore(list, name) ==
    IF list = <<>> THEN <<>>
    ELSE InsertByScore(SortByScore(SubSeq(list, 1, Len(list) - 1), name),
                       list[Len(list)], name)

\* a request of a page of a company
CompanyRequest(url, source, priority, ranked_position) ==
    [ url |-> url, callback |-> "parse_linkedin_company", source |-> source,
      priority |-> priority, ranked_position |-> ranked_position ]

\* the first letters of the words of the name
Acronym(name) ==
    LET words == SelectSeq(SplitAt(Lower(name), " "), LAMBDA w : w # <<>>)
    IN  [k \in 1..Len(words) |-> words[k][1]] \o <<>>

\* name_variants
NameVariants(name) ==
    << ReplaceChar(Lower(name), " ", "-"), Without(Lower(name), " "), Acronym(name) >>

\* the requests of parse_linkedin_search_results, in the order it makes them
SearchRequests(links, url, name) ==
    IF IsLoginUrl(url) THEN <<>>
    ELSE LET sorted == SortByScore(relevant_links(links, name), name)
             top == SubSeq(sorted, 1, IF Len(sorted) < MaxCompanyPages
                                      THEN Len(sorted) ELSE MaxCompanyPages)
             variants == SelectSeq(NameVariants(name), LAMBDA v : v # <<>>)
         IN  [k \in 1..Len(top) |->
                 CompanyRequest(top[k].url, "linkedin_company",
                                IF k = 1 THEN 3 ELSE 2, k)] \o <<>>
             \o (IF sorted = <<>>
                 THEN [k \in 1..Len(variants) |->
                          CompanyRequest(T_LinkedIn \o S_company \o variants[k],
                                         "linkedin_company_direct", 0, 0)] \o <<>>
                 ELSE <<>>)

InitSearchResults ==
    /\ Spider({})
    /\ AnyWeb /\ NoLookup /\ NoSearch /\ NoTools
    /\ input \in SearchResponses
    /\ output = NotReturned

\* parse_linkedin_search_results(response)
ParseSearchResults ==
    /\ input.op = "parse_linkedin_search_results"
    /\ output = NotReturned
    /\ output' = Return(SearchRequests(input.links, input.url, input.name))
    /\ UNCHANGED <<input, crawl, web, places, search, tools>>

NextSearchResults == ParseSearchResults

SpecSearchResults == InitSearchResults /\ [][NextSearchResults]_vars

\* ------------------------------------------------------------------------
\* similarity_score and similar_names on pairs of names
\* ------------------------------------------------------------------------

\* the names the two helpers are called with: a name, the same in other
\* letter cases, with its words in another order and with two blanks, a
\* part of it, a longer name with the same first letters, another name, an
\* empty name and a name of blanks
PairNames ==
    { <<"A","c","m","e"," ","T","o","o","l","s">>, <<"a","c","m","e"," ","t","o","o","l","s">>, <<"T","o","o","l","s"," ","A","C","M","E">>, <<"A","c","m","e"," "," ","T","o","o","l","s">>, <<"A","c","m","e">>,
      <<"A","c","m","e"," ","T","o","o","l","i","n","g">>, <<"Z","e","n","i","t","h"," ","T","r","a","d","e","r","s">>, <<>>, <<" "," ">> }

\* a call of a helper with two names
PairCall(op, name1, name2) == [ op |-> op, name1 |-> name1, name2 |-> name2 ]

PairCalls ==
    { PairCall(op, name1, name2) :
        op \in {"similarity_score", "similar_names"},
        name1 \in PairNames, name2 \in PairNames }

InitNames ==
    /\ Spider({})
    /\ AnyWeb /\ NoLookup /\ NoSearch /\ NoTools
    /\ input \in PairCalls
    /\ output = NotReturned

\* similarity_score(name1, name2)
SimilarityScore ==
    /\ input.op = "similarity_score"
    /\ output = NotReturned
    /\ output' = Return(similarity_score(input.name1, input.name2))
    /\ UNCHANGED <<input, crawl, web, places, search, tools>>

\* similar_names(name1, name2)
SimilarNames ==
    /\ input.op = "similar_names"
    /\ output = NotReturned
    /\ output' = Return(similar_names(input.name1, input.name2))
    /\ UNCHANGED <<input, crawl, web, places, search, tools>>

NextNames == SimilarityScore \/ SimilarNames

SpecNames == InitNames /\ [][NextNames]_vars


\* ------------------------------------------------------------------------
\* extract_company_names (scraper.py): the names of the companies of a text,
\* asked of the generative model and kept in company_cache.json
\* ------------------------------------------------------------------------

\* the calls of extract_company_names in a run
MaxExtractions == 3

\* the texts of the PDF files: two texts and the text of a file without text
PdfTexts == { <<>>, <<"a","c","m","e"," ","t","o","o","l","s"," ","l","t","d"," ","a","n","d"," ","z","e","n","i","t","h"," ","t","r","a","d","e","r","s">>, <<"a","n","n","u","a","l"," ","r","e","p","o","r","t">> }

T_NoNames == <<"N","o"," ","c","o","m","p","a","n","y"," ","n","a","m","e","s"," ","f","o","u","n","d">>

\* what the call of the model gives: response.text, or an exception
Replied(text) == [ raised |-> FALSE, text |-> text ]

ModelReplies ==
    { [ raised |-> TRUE ] }
        \cup { Replied(t) :
                 t \in { T_NoNames,
                         <<"A","c","m","e"," ","T","o","o","l","s"," ","L","t","d",","," ","Z","e","n","i","t","h"," ","T","r","a","d","e","r","s">>,
                         <<" ","Z","e","n","i","t","h"," ","T","r","a","d","e","r","s"," ",","," ","A","c","m","e"," ","T","o","o","l","s"," ","L","t","d",".">>,
                         <<"'","A","c","m","e"," ","T","o","o","l","s","'",","," ","A","c","m","e"," ","T","o","o","l","s"," ","I","n","c">>,
                         <<"Z","e","n","i","t","h"," ","T","r","a","d","e","r","s">>,
                         <<"-">>,
                         <<","," ",",">> } }

\* hashlib.md5(text.encode('utf-8')).hexdigest(): a digest of the text, taken
\* to differ for texts that differ
compute_text_hash(text) == <<"md5">> \o text

\* Inc\.?|LLC|Ltd\.?|Corp\.?|Corporation|Limited|Company, in lower case
LegalSuffixes ==
    { <<"i","n","c">>, <<"i","n","c",".">>, <<"l","l","c">>, <<"l","t","d">>, <<"l","t","d",".">>, <<"c","o","r","p">>, <<"c","o","r","p",".">>,
      <<"c","o","r","p","o","r","a","t","i","o","n">>, <<"l","i","m","i","t","e","d">>, <<"c","o","m","p","a","n","y">> }

\* re.sub(r'\s+(Inc\.?|...|Company)$', '', name, flags=re.IGNORECASE)
WithoutSuffix(name) ==
    IF \E suffix \in LegalSuffixes : EndsWith(Lower(name), <<" ">> \o suffix)
    THEN LET suffix == CHOOSE x \in LegalSuffixes :
                           /\ EndsWith(Lower(name), <<" ">> \o x)
                           /\ \A y \in LegalSuffixes :
                                  EndsWith(Lower(name), <<" ">> \o y) => Len(y) <= Len(x)
         IN  StripRight(SubSeq(name, 1, Len(name) - Len(suffix)))
    ELSE name

\* re.sub(r'^["\'](.*)["\']$', r'\1', cleaned_name)
Unquoted(name) ==
    IF Len(name) >= 2 /\ name[1] \in {"'", "\""} /\ name[Len(name)] \in {"'", "\""}
    THEN SubSeq(name, 2, Len(name) - 1)
    ELSE name

\* cleaned_name of a name of raw_names
CleanedName(name) == Strip(Unquoted(WithoutSuffix(name)))

\* if cleaned_name and len(cleaned_name) > 1
TwoOrMore(cleaned_name) == Len(cleaned_name) > 1

\* company_names before it is sorted
CleanedNames(result) ==
    SelectSeq(MapSeq(CleanedName, SelectSeq(MapSeq(Strip, SplitAt(result, ",")), NonEmpty)),
              TwoOrMore)

\* the characters of the names in the order of their code points
CodePoints == <<" ","'","-",".","0","1","2","3","4","5","6","7","8","9","A","B","C","D","E","F","G","H","I","J","K","L","M","N","O","P","Q","R","S","T","U","V","W","X","Y","Z","a","b","c","d","e","f","g","h","i","j","k","l","m","n","o","p","q","r","s","t","u","v","w","x","y","z">>

CodePoint(c) == CHOOSE k \in 1..Len(CodePoints) : CodePoints[k] = c

\* a < b for two strings
StringLess(a, b) ==
    LET differ == { k \in 1..Len(a) : k <= Len(b) /\ a[k] # b[k] } IN
    IF differ = {} THEN Len(a) < Len(b)
    ELSE LET k == CHOOSE x \in differ : \A y \in differ : x <= y
         IN  CodePoint(a[k]) < CodePoint(b[k])

\* sorted(set(company_names))
SortedSet(names_found) ==
    CHOOSE q \in AllOrders(Range(names_found)) :
        \A k \in 1..(Len(q) - 1) : StringLess(q[k], q[k + 1])

\* cache[text_hash] = company_names
Put(stored_cache, text_hash, names_found) ==
    [ k \in DOMAIN stored_cache \cup {text_hash} |->
        IF k = text_hash THEN names_found ELSE stored_cache[k] ]

\* what a call of extract_company_names gives: the list it returns, whether it
\* has called the model, and the cache file it leaves
Extracted(value, asked, stored_cache) ==
    [ value |-> value, asked |-> asked, cache |-> stored_cache ]

\* extract_company_names(text, force_api_call) on the cache file, when the
\* model gives the reply
extract_company_names(text, force_api_call, reply, stored_cache) ==
    IF text = <<>> THEN Extracted(<<>>, FALSE, stored_cache)
    ELSE LET text_hash == compute_text_hash(text) IN
         IF text_hash \in DOMAIN stored_cache /\ ~force_api_call
         THEN Extracted(stored_cache[text_hash], FALSE, stored_cache)
         ELSE IF reply.raised THEN Extracted(<<>>, TRUE, stored_cache)
         ELSE IF Strip(reply.text) = T_NoNames THEN Extracted(<<>>, TRUE, stored_cache)
         ELSE LET names_found == SortedSet(CleanedNames(Strip(reply.text)))
              IN  Extracted(names_found, TRUE,
                            Put(stored_cache, text_hash, names_found))

InitExtractor ==
    /\ Spider({})
    /\ AnyWeb /\ NoCall /\ NoLookup /\ NoSearch
    /\ cache = <<>>
    /\ extraction = <<>>
    /\ named = [ text \in PdfTexts |-> {} ]
    /\ extractions = 0
    /\ urls_or_url = <<>> /\ futures = <<>> /\ all_emails = <<>>
    /\ drivers = <<>> /\ mapping = <<>>

\* a call of extract_company_names
ExtractCompanyNames ==
    /\ extractions < MaxExtractions
    /\ \E text \in PdfTexts : \E force_api_call \in BOOLEAN : \E reply \in ModelReplies :
         LET x == extract_company_names(text, force_api_call, reply, cache) IN
         /\ cache' = x.cache
         /\ extraction' = [ text |-> text, force_api_call |-> force_api_call,
                            asked |-> x.asked, value |-> x.value ]
         /\ named' = IF x.value # <<>>
                     THEN [named EXCEPT ![text] = @ \cup {x.value}]
                     ELSE named
    /\ extractions' = extractions + 1
    /\ UNCHANGED <<crawl, web, pure, places, search, selenium>>

NextExtractor == ExtractCompanyNames

SpecExtractor == InitExtractor /\ [][NextExtractor]_vars

\* ------------------------------------------------------------------------
\* scrape_emails_with_selenium (email_scraper.py) on a list of URLs: one
\* call of scrape_emails_from_url per URL on the threads of the executor,
\* and the loop over as_completed on the thread of the caller
\* ------------------------------------------------------------------------

\* the longest list of URLs
MaxUrls == 3

Urls == { "https://www.acme-tools.com", "https://www.zenith-traders.in" }

\* the lists of URLs, with the empty list and the lists that hold a URL twice
UrlLists == UNION { [ 1..n -> Urls ] : n \in 0..MaxUrls }

\* filtered_emails of a page: none, or the address of the page
PageEmails == { <<>>, <<T_Sales>> }

\* a future whose call has not begun, one whose call is at a stage with the
\* driver it has made, and one that is done with a result or an exception
Queued == [ stage |-> "queued", raised |-> FALSE, emails |-> <<>> ]

Driving == [ stage |-> "driving", raised |-> FALSE, emails |-> <<>> ]

Quitting(emails) == [ stage |-> "quitting", raised |-> FALSE, emails |-> emails ]

Done(emails) == [ stage |-> "done", raised |-> FALSE, emails |-> emails ]

Raised == [ stage |-> "done", raised |-> TRUE, emails |-> <<>> ]

\* the future the loop has taken from as_completed
Collected(future) == [future EXCEPT !.stage = "collected"]

NoDriver == [ made |-> 0, quits |-> 0 ]

\* the body of  for future in concurrent.futures.as_completed(future_to_url)
\* without its  except Exception: a future that raises gives no key
collect_without_except(emails_by_url, url, future) ==
    IF future.raised THEN emails_by_url
    ELSE Put(emails_by_url, url, future.emails)

\* the body of  for future in concurrent.futures.as_completed(future_to_url):
\* all_emails after it, for the future of the URL
collect(emails_by_url, url, future) ==
    IF future.raised THEN Put(emails_by_url, url, <<>>)
    ELSE IF future.emails # <<>> THEN Put(emails_by_url, url, future.emails)
    ELSE Put(emails_by_url, url, <<>>)

\* the call has submitted a future for each element of the list
InitSelenium ==
    /\ Spider({})
    /\ AnyWeb /\ NoCall /\ NoLookup /\ NoSearch
    /\ cache = <<>> /\ extraction = <<>> /\ named = <<>> /\ extractions = 0
    /\ urls_or_url \in UrlLists
    /\ futures = [ k \in DOMAIN urls_or_url |-> Queued ]
    /\ all_emails = <<>>
    /\ drivers = [ k \in DOMAIN urls_or_url |-> NoDriver ]
    /\ mapping = NotReturned

\* driver = setup_driver(): webdriver.Chrome(...) returns a driver, or raises
\* and the exception leaves scrape_emails_from_url
SetupDriver ==
    /\ \E k \in DOMAIN futures :
         /\ futures[k].stage = "queued"
         /\ \/ /\ futures' = [futures EXCEPT ![k] = Driving]
               /\ drivers' = [drivers EXCEPT ![k].made = @ + 1]
            \/ /\ futures' = [futures EXCEPT ![k] = Raised]
               /\ drivers' = drivers
    /\ UNCHANGED <<crawl, web, pure, places, search, extractor, urls_or_url,
                   all_emails, mapping>>

\* the try block of scrape_emails_from_url: return filtered_emails, or
\* return [] from the except block
ScrapeEmailsFromUrl ==
    /\ \E k \in DOMAIN futures : \E emails \in PageEmails :
         /\ futures[k].stage = "driving"
         /\ futures' = [futures EXCEPT ![k] = Quitting(emails)]
    /\ UNCHANGED <<crawl, web, pure, places, search, extractor, urls_or_url,
                   all_emails, drivers, mapping>>

\* finally: driver.quit(), which returns or raises
DriverQuit ==
    /\ \E k \in DOMAIN futures :
         /\ futures[k].stage = "quitting"
         /\ drivers' = [drivers EXCEPT ![k].quits = @ + 1]
         /\ \/ futures' = [futures EXCEPT ![k] = Done(futures[k].emails)]
            \/ futures' = [futures EXCEPT ![k] = Raised]
    /\ UNCHANGED <<crawl, web, pure, places, search, extractor, urls_or_url,
                   all_emails, mapping>>

\* one iteration of the loop over as_completed: a future that is done
AsCompleted ==
    /\ mapping = NotReturned
    /\ \E k \in DOMAIN futures :
         /\ futures[k].stage = "done"
         /\ all_emails' = collect(all_emails, urls_or_url[k], futures[k])
         /\ futures' = [futures EXCEPT ![k] = Collected(futures[k])]
    /\ UNCHANGED <<crawl, web, pure, places, search, extractor, urls_or_url,
                   drivers, mapping>>

\* the end of the with block, when every future has been taken: return all_emails
ReturnAllEmails ==
    /\ mapping = NotReturned
    /\ \A k \in DOMAIN futures : futures[k].stage = "collected"
    /\ mapping' = Return(all_emails)
    /\ UNCHANGED <<crawl, web, pure, places, search, extractor, urls_or_url,
                   futures, all_emails, drivers>>

NextSelenium ==
    SetupDriver \/ ScrapeEmailsFromUrl \/ DriverQuit \/ AsCompleted \/ ReturnAllEmails

SpecSelenium == InitSelenium /\ [][NextSelenium]_vars

\* ------------------------------------------------------------------------
\* Properties
\* ------------------------------------------------------------------------

\* the rows of a company in a sequence of rows
RowsIn(rr, c) == SelectSeq(rr, LAMBDA r : r.name = c)

\* C1: once the email of a company's record is non-empty, no later step of
\* any callback changes it
C1_EmailKept ==
    [][\A c \in Companies :
          HasEmail(results[c]) => results'[c].email = results[c].email]_vars

\* a callback has run on the page that holds ops@acme.in and its phone
\* while the record held the email sales@acmetools.com: it took the phone
\* and kept the email
C1_Witness ==
    \E c \in Companies :
        /\ results[c] # Absent
        /\ results[c].email = T_Sales
        /\ results[c].phone = P_Both

\* C2: once the phone of a company's record is non-empty, no later step of
\* any callback changes it
C2_PhoneKept ==
    [][\A c \in Companies :
          HasPhone(results[c]) => results'[c].phone = results[c].phone]_vars

\* a callback has run on the page that holds +12125550187 and its email
\* while the record held the phone +919820123456: it took the email and kept
\* the phone
C2_Witness ==
    \E c \in Companies :
        /\ results[c] # Absent
        /\ results[c].phone = P_CallUs
        /\ results[c].email = E_Both

\* C3: the output holds at most one row per company, and no step writes a
\* row for a company that is marked saved
C3_OneRow ==
    [][\A c \in Companies :
          /\ Len(RowsIn(rows', c)) <= 1
          /\ c \in saved => RowsIn(rows', c) = RowsIn(rows, c)]_vars

\* the row of a company was written without a phone, and extract_contact_info
\* for the source 'facebook', which ends with save_result, has since put a
\* phone in the record: the output still holds the one row
C3_Witness ==
    \E c \in Companies :
        /\ c \in saved
        /\ Len(RowsIn(rows, c)) = 1
        /\ RowsIn(rows, c)[1].phone = <<>>
        /\ HasPhone(results[c])
        /\ results[c].source[1] = "facebook"

\* C4: when a step writes a row for a company, the record then holds both
\* an email and a phone, or no request of the company is pending (and so
\* none is made afterwards)
C4_RowWhenCompleteOrExhausted ==
    [][\A c \in Companies :
          RowsIn(rows', c) # RowsIn(rows, c) =>
              IsComplete(results'[c]) \/ pending'[c] = {}]_vars

\* C5: when the requests of a company have been made and none is pending,
\* and its record holds an email or a phone, the output holds a row for it
C5_EventualEmission ==
    \A c \in started :
        pending[c] = {} /\ (HasEmail(results[c]) \/ HasPhone(results[c]))
            => RowsIn(rows, c) # <<>>

\* C6: a callback that starts with a record that holds both an email and a
\* phone makes no request
C6_NoRequestWhenComplete ==
    [][\A c \in Companies :
          IsComplete(results[c]) /\ delivered' # delivered => issued'[c] = {}]_vars

\* C7: no step makes a request to a network whose login page a callback
\* has found for the company
C7_LoginWallTerminal ==
    [][\A c \in Companies :
          \A k \in issued'[c] : Network(k) \notin walled[c]]_vars

\* C8: every phone held in a record passes validate_phone_number
C8_PhoneValid ==
    \A c \in Companies :
        HasPhone(results[c]) => validate_phone_number(results[c].phone)

\* C9: every email held in a record has a length of 6 to 100, ends with an
\* allowed TLD and holds no placeholder
C9_EmailValid ==
    \A c \in Companies : HasEmail(results[c]) => EmailFilter(results[c].email)

C12_OneOfTwoEmails ==
    [][\A c \in Companies : \A req \in pending[c] \ pending'[c] :
          /\ results'[c].email =
                 IF HasEmail(results[c]) THEN results[c].email ELSE req.text
          /\ results'[c].email \in { r.text : r \in issued[c] }]_vars

\* both callbacks have run, the footer of the website first: the record
\* holds its email and not the one of the LinkedIn about page
C12_Witness ==
    \E c \in Companies :
        /\ pending[c] = {}
        /\ delivered = 2
        /\ \E r1 \in issued[c], r2 \in issued[c] :
               /\ r1.callback = "parse_start_url"
               /\ r2.callback = "parse_linkedin_about"
               /\ results[c].email = r1.text
               /\ r2.text # r1.text
               /\ results[c].source = Label("company_website", "footer")

\* C13: two runs on the same pages end with the same email and the same
\* phone in the record, whatever the order of arrival of the responses
C13_SameValuesInBothRuns ==
    (\A k \in Runs : pending[k] = {}) =>
        \A k1 \in Runs, k2 \in Runs :
            /\ results[k1].email = results[k2].email
            /\ results[k1].phone = results[k2].phone

\* the companies whose record or pending requests a step changes
Touched ==
    { c \in DOMAIN results : results'[c] # results[c] \/ pending'[c] # pending[c] }

\* a request of company c fails: it leaves the pending requests and no
\* callback runs
FetchFails(c) ==
    /\ delivered' = delivered
    /\ started' = started
    /\ pending'[c] # pending[c]

\* the lookup of a company failed: an exception, or the status of a failed
\* connection
LookupFailed(outcome) == outcome.raised \/ outcome.status = T_ConnectionError

\* C14: a fetch failure or an exception while one company is handled changes
\* the record and the pending requests of no other company and does not
\* stop the batch: a failed request of the spider only leaves the pending
\* requests, and an iteration of the lookup loop whose lookup failed stores
\* an empty entry for its company, leaves the other entries alone and goes
\* on to the next name
C14_FailureIsolated ==
    [][/\ Cardinality(Touched) <= 1
       /\ \A c \in DOMAIN results :
              FetchFails(c) =>
                  /\ \E req \in pending[c] : pending'[c] = pending[c] \ {req}
                  /\ UNCHANGED <<results, saved, rows>>
       /\ lookups' # lookups =>
              LET last == lookups'[Len(lookups')]
              IN  /\ UNCHANGED crawl
                  /\ \A n \in DOMAIN company_details \ {last.name} :
                         company_details'[n] = company_details[n]
                  /\ LookupFailed(last.outcome) =>
                         company_details'[last.name] = EmptyDetails
                  /\ taken' = taken + 1
                  /\ at' = IF taken' < Len(companies_to_scrape) THEN "loop"
                           ELSE "returned"]_vars

\* the number a digit stands for
DigitValue(ch) == CHOOSE v \in 0..9 : ascending[v + 1] = ch

\* k equal digits in a row somewhere in d
HasRepeated(d, k) ==
    \E p \in 1..(Len(d) - k + 1) : \A j \in 1..(k - 1) : d[p + j] = d[p]

\* k digits in a row somewhere in d, each the one before plus step
HasSequence(d, k, step) ==
    \E p \in 1..(Len(d) - k + 1) :
        \A j \in 1..(k - 1) : DigitValue(d[p + j]) = DigitValue(d[p + j - 1]) + step

\* seven equal digits in a row, or eight ascending or descending ones
HasRun(d) ==
    \/ HasRepeated(d, RepeatRun)
    \/ HasSequence(d, SequentialRun, 1)
    \/ HasSequence(d, SequentialRun, -1)

\* '+91' and ten digits
IsPlus91(text) ==
    /\ Len(text) = 3 + LocalDigits
    /\ SubSeq(text, 1, 3) = <<"+","9","1">>
    /\ \A k \in 4..Len(text) : IsDigit(text[k])

\* ten digits of which the first is 6, 7, 8 or 9
IsLocalMobile(text) ==
    /\ Len(text) = LocalDigits
    /\ \A k \in 1..Len(text) : IsDigit(text[k])
    /\ text[1] \in {"6", "7", "8", "9"}

C17_EveryFormReturned ==
    (output.returned /\ input.form \in {"standard", "obfuscated"})
        => (EmailFilter(input.email) => input.email \in output.value)

\* C18: extract_emails_from_content returns nothing for a text that is one
\* address of the list of placeholders
C18_PlaceholderDropped ==
    (output.returned /\ input.form = "placeholder") => output.value = {}

\* the text info@example.com has given no address
C18_Witness ==
    /\ input = Extract("placeholder", M_Example, M_Example)
    /\ output = Return({})

\* the rows of the output file after its first
DataRows == SubSeq(rows, 2, Len(rows))

\* C19: the output file begins with the header, written once, and then
\* holds one row for each saved company, in the order in which the
\* companies were saved: a step appends the rows of the companies it saves
\* at the end and leaves the rows before them as they are
C19_HeaderThenRowsInOrder ==
    /\ [](/\ Len(rows) = 1 + Cardinality(saved)
          /\ rows[1] = Header
          /\ \A k \in 2..Len(rows) : rows[k] # Header
          /\ \A c \in saved : Len(RowsIn(DataRows, c)) = 1)
    /\ [][/\ Len(rows') >= Len(rows)
           /\ SubSeq(rows', 1, Len(rows)) = rows
           /\ { rows'[k].name : k \in (Len(rows) + 1)..Len(rows') } = saved' \ saved]_vars

\* the two companies are saved, the second of the list of companies first
C19_Witness ==
    /\ saved = BatchCompanies
    /\ Len(rows) = 3
    /\ rows[2].name \notin Companies
    /\ rows[3].name \in Companies

\* the names of the list that have a document in a collection that can be
\* reached
Known ==
    IF stored.up THEN NamesOf(company_names) \cap DOMAIN stored.docs ELSE {}

\* a field of an entry holds what the document holds, or nothing when the
\* document has no such field
SameAsStored(entry, document) ==
    \A field \in DetailFields :
        entry[field] = IF field \in DOMAIN document THEN document[field]
                       ELSE EmptyDetails[field]

\* C20: get_company_details makes no places lookup for a name the
\* collection has given the details of, returns for such a name the details
\* as they are stored, and returns as found in the database those names and
\* no other
C20_KnownNotLookedUp ==
    /\ \A k \in 1..Len(lookups) : lookups[k].name \notin Known
    /\ at = "returned" =>
           /\ \A n \in Known :
                  /\ n \in DOMAIN company_details
                  /\ SameAsStored(company_details[n], stored.docs[n])
           /\ NamesOf(db_companies_list) = Known
           /\ Len(db_companies_list) = Cardinality(Known)

\* get_company_details has returned for a list of two names of which the
\* first was stored and the second was looked up
C20_Witness ==
    /\ at = "returned"
    /\ Len(company_names) = 2
    /\ Known = {company_names[1]}
    /\ Len(lookups) = 1
    /\ lookups[1].name = company_names[2]
    /\ db_companies_list = <<company_names[1]>>

\* every request of the company has had its response
AllAnswered(c) == c \in started /\ pending[c] = {}

Attempts(calls) == SelectSeq(calls, LAMBDA s : s.request = "findplacefromtext")

\* a triple (phone, website, status)
IsTriple(value) == DOMAIN value = {"phone", "website", "status"}

HomePage == web.page

\* the steps of extract_contact_info, by what they add to the source, in the
\* order they run
StepOrder ==
    << "footer", "contact section", "about section", "address section",
       "schema", "html element", "gemini", "" >>

StepRank(suffix) == CHOOSE k \in 1..Len(StepOrder) : StepOrder[k] = suffix

\* the fragment holds the email
HoldsEmail(item, email) ==
    IF item.place = "ai" THEN item.value = email ELSE Contains(item.value, email)

\* the fragment holds the digits of the phone, with or without the country
HoldsPhone(item, phone) ==
    LET digits == DigitsOnly(IF item.place = "ai" THEN item.more ELSE item.value)
    IN  digits # <<>> /\ EndsWith(DigitsOnly(phone), digits)

\* the step that reads an email in a fragment: the step of its section, and
\* the step of the HTML elements for a paragraph outside the sections
EmailStep(item) ==
    CASE item.place = "ai"      -> "gemini"
      [] item.place = "footer"  -> "footer"
      [] item.place = "contact" -> "contact section"
      [] item.place = "about"   -> "about section"
      [] item.place = "address" -> "address section"
      [] item.place = "schema"  -> "schema"
      [] OTHER                  -> "html element"

\* the step that reads a phone in a fragment: as for an email, but outside
\* the sections the step of the HTML elements reads the tel: links only, and
\* a phone in a paragraph is left to the search of the whole page
PhoneStep(item) ==
    IF item.place = "body"
    THEN IF item.form = "tel" THEN "html element" ELSE ""
    ELSE EmailStep(item)

\* the ranks of the steps that read a value held in the fragments of a page
ReadAt(page, Holds(_), StepOf(_)) ==
    { StepRank(StepOf(page[k])) : k \in { j \in 1..Len(page) : Holds(page[j]) } }

Least(ranks) == CHOOSE r \in ranks : \A q \in ranks : r <= q

Greatest(ranks) == CHOOSE r \in ranks : \A q \in ranks : r >= q

\* the steps that wrote the fields a record holds: for each field the
\* first step that reads its value on the page
Writers(page, rec) ==
    (IF rec.email # <<>>
     THEN { Least(ReadAt(page, LAMBDA it : HoldsEmail(it, rec.email), EmailStep)) }
     ELSE {})
    \cup
    (IF rec.phone # <<>>
     THEN { Least(ReadAt(page, LAMBDA it : HoldsPhone(it, rec.phone), PhoneStep)) }
     ELSE {})

Strategies == {"web", "linkedin", "indiamart", "facebook"}

\* C23: when the requests of a company have been made and none is left
\* pending, a request of each of the four strategies has been made for it,
\* unless its record holds both an email and a phone; whatever became of
\* the request of the home page, a failed fetch included
C23_AllStrategiesTried ==
    \A c \in started :
        (pending[c] = {} /\ ~IsComplete(results[c])) => tried[c] = Strategies

\* C24: a callback of LinkedIn or Facebook that is given a response of the
\* login page changes no record, writes no row and makes no request
C24_LoginWallNoEffect ==
    [][\A c \in Companies : \A req \in pending[c] \ pending'[c] :
          (delivered' # delivered /\ req.callback = web.walled) =>
              /\ results' = results
              /\ rows' = rows
              /\ saved' = saved
              /\ issued'[c] = {}]_vars

\* C25: the AI fallback extractor (verify_contact_info) is called only for
\* a company whose record still lacks an email or a phone when the call is
\* made; it is never called for a company whose record is complete.
C25_AskedOnlyWhenIncomplete == gem.asked => ~gem.complete

\* the page as the deterministic extractors see it: without what the
\* generative model answers on it
Deterministic(page) == SelectSeq(page, LAMBDA item : item.place # "ai")

\* the records parse_start_url gives for the page when verify_contact_info
\* finds nothing: what the sections, the structured data, the HTML elements
\* and the patterns on the whole page yield
DeterministicRecords(page, c) ==
    IF Deterministic(page) = <<>> THEN {}
    ELSE UNION { { x.rec : x \in parse_start_url(Enter(Absent, FALSE), resp,
                                     Req("parse_start_url", "company_website"), c) } :
                   resp \in ResponsesOn[PageSites(Deterministic(page))]["parse_start_url"] }

\* a deterministic extractor yields a valid candidate for the field
Yields(page, c, field) ==
    \E rec \in DeterministicRecords(page, c) : rec # Absent /\ rec[field] # <<>>

\* the field of the record holds the value verify_contact_info returned,
\* and no deterministic extractor gives that value
StoredFromAnswer(page, c, field) ==
    /\ results[c] # Absent
    /\ gem.asked /\ ~gem.raised
    /\ gem.returned[field] # <<>>
    /\ results[c][field] = gem.returned[field]
    /\ \A rec \in DeterministicRecords(page, c) :
           rec = Absent \/ rec[field] # results[c][field]

FragmentRank(item) ==
    CASE item.place = "footer"                -> 1
      [] item.place \in {"contact", "address"} -> 2
      [] item.place = "about"                 -> 3
      [] item.place = "schema"                -> 4
      [] OTHER                                -> 5

\* the fragment, on a page of its own, gives the value for the field
Gives(item, c, field, value) ==
    \E rec \in DeterministicRecords(<<item>>, c) : rec # Absent /\ rec[field] = value

\* C27: within one page the value stored for a field comes from the earliest
\* fragment type that yields a valid candidate, in the order footer, contact
\* / address / location, about-us, structured data, other blocks of text: a
\* later type never supplies a field an earlier type had a candidate for
C27_EarliestFragmentTypeWins ==
    \A c \in Companies : \A field \in {"email", "phone"} :
        LET page == Deterministic(HomePage) IN
        (/\ results[c] # Absent
         /\ results[c][field] # <<>>
         /\ ~StoredFromAnswer(HomePage, c, field)) =>
            \E k \in DOMAIN page :
                /\ Gives(page[k], c, field, results[c][field])
                /\ \A j \in DOMAIN page :
                       Yields(<<page[j]>>, c, field) =>
                           FragmentRank(page[j]) >= FragmentRank(page[k])

\* the plain-text matches of a text in the order they occur in it
PlainMatches(text) == SelectSeq(FindAllEmail(text), EmailFilter)

\* the addresses of the mailto: links of a page
PageMailtos(page) == SelectSeq(MapSeq(MailtoAddress, MailtoLinks(page)), MailtoCheck)

\* C28: when a fragment holds an email inside a mailto: link and a different
\* valid email in plain text, the address of the mailto: link is the one
\* stored; and of the plain-text matches of a fragment the one stored is the
\* one that occurs first
C28_MailtoThenFirstOccurrence ==
    \A c \in Companies :
        LET page == Deterministic(HomePage) IN
        results[c] # Absent =>
            /\ (/\ \A k \in DOMAIN page : page[k].place = "body"
                /\ PageMailtos(page) # <<>>
                /\ \E k \in DOMAIN page :
                       /\ page[k].form = "text"
                       /\ PlainMatches(page[k].value) # <<>>
                       /\ PlainMatches(page[k].value)[1] # PageMailtos(page)[1])
                   => results[c].email = PageMailtos(page)[1]
            /\ (/\ HomePage = page /\ Len(page) = 1
                /\ page[1].form = "text"
                /\ PlainMatches(page[1].value) # <<>>)
                   => results[c].email = PlainMatches(page[1].value)[1]

\* the body holds an email, phone or call indicator
Indicator(body_text) ==
    \/ Contains(body_text, S_email)
    \/ Contains(body_text, S_phone)
    \/ Contains(body_text, S_call)

\* the URL, the title or the body holds 'contact' or 'about', a match in
\* the body alone counting only with an indicator in the body
LikelyContactPage(page, url) ==
    \/ url \in {"contact", "about"}
    \/ ContactOrAboutIn(PageTitle(page))
    \/ ContactOrAboutIn(BodyText(page)) /\ Indicator(BodyText(page))

\* C29: a page fetched as a contact-page candidate is used for extraction
\* iff its URL, its title or its body holds 'contact' or 'about', a match in
\* the body alone counting only when the body also holds an email, phone or
\* call indicator: a page that is classified gives the record the email and
\* the phone it holds, and for a page that is not parse_contact_page changes
\* no field of a record and writes no row
C29_ContactPageUsedIffLikely ==
    [][\A c \in Companies : \A req \in pending[c] \ pending'[c] :
          (delivered' # delivered /\ req.callback = "parse_contact_page") =>
              IF LikelyContactPage(web.page, web.url)
              THEN /\ extract_emails_from_content(PageText(web.page)) # {}
                          => results'[c].email # <<>>
                   /\ <<>> \notin extract_phones_from_content(PageText(web.page))
                          => results'[c].phone # <<>>
              ELSE /\ results' = results
                   /\ rows' = rows
                   /\ saved' = saved]_vars

\* the result links of a response that pass similar_names, as the URLs the
\* requests are made to
PassingLinks(call) ==
    MapSeq(LAMBDA link : T_LinkedIn \o CleanLink(link),
           SelectSeq(call.links, LAMBDA link :
               /\ Contains(link, S_company)
               /\ similar_names(UrlCompanyName(CleanLink(link)), call.name)))

\* the similarity_score of the company a URL names
UrlScore(url, name) == similarity_score(UrlCompanyName(url), name)

\* the requests of a source, of the requests made
OfSource(requests, source) == SelectSeq(requests, LAMBDA r : r.source = source)

\* the times a URL is in a list of URLs
Times(urls, url) == Cardinality({ k \in DOMAIN urls : urls[k] = url })

\* C30: for one response of the LinkedIn search (a page of results, not the
\* login page) at most 3 requests of company pages are made; they go to the
\* result links that pass similar_names, taken in the order of
\* non-increasing similarity_score (no link left out has a greater score
\* than one that is taken); and requests of the guessed slugs are made if
\* and only if no result link passes similar_names
C30_TopThreeByScoreElseSlugs ==
    (output # <<>> /\ output.returned /\ input.op = "parse_linkedin_search_results"
        /\ ~IsLoginUrl(input.url)) =>
        LET passing == PassingLinks(input)
            pages == MapSeq(LAMBDA r : r.url, OfSource(output.value, "linkedin_company"))
            direct == OfSource(output.value, "linkedin_company_direct")
        IN  /\ Len(pages) <= 3
            /\ Len(pages) = IF Len(passing) < 3 THEN Len(passing) ELSE 3
            /\ \A url \in Range(pages) : Times(pages, url) <= Times(passing, url)
            /\ \A j \in DOMAIN pages : \A k \in DOMAIN pages :
                   j < k => ~ScoreLess(UrlScore(pages[j], input.name),
                                       UrlScore(pages[k], input.name))
            /\ \A url \in Range(passing) :
                   Times(pages, url) < Times(passing, url) =>
                       \A k \in DOMAIN pages :
                           ~ScoreLess(UrlScore(pages[k], input.name),
                                      UrlScore(url, input.name))
            /\ direct # <<>> <=> passing = <<>>
            /\ Len(output.value) = Len(pages) + Len(direct)

\* four links pass, listed by rising score: the requests go to the three of
\* the greatest score, the greatest first
C30_Witness ==
    /\ output # <<>> /\ output.returned
    /\ input.op = "parse_linkedin_search_results"
    /\ input.links = <<L_Joined, L_Short, L_Long, L_Exact>>
    /\ MapSeq(LAMBDA r : r.url, output.value)
           = <<T_LinkedIn \o L_Exact, T_LinkedIn \o L_Long, T_LinkedIn \o L_Short>>

\* a name in lower case and without its blanks
Squeezed(name) == Without(Lower(name), " ")

\* the first 5 characters of a string, or all of it when it is shorter
FirstFive(s) == SubSeq(s, 1, IF Len(s) < 5 THEN Len(s) ELSE 5)

\* a helper has returned from a call with the two names
Scored(op) == output # <<>> /\ output.returned /\ input.op = op

\* C31: similarity_score is the Jaccard index of the sets of the words of
\* its arguments in lower case: it is symmetric, lies between 0 and 1, is 0
\* when either set is empty and is 1 exactly when the two sets are equal and
\* not empty; similar_names is symmetric and true iff, in lower case and
\* without blanks, one string contains the other or the first 5 characters
\* of either string occur in the other
C31_JaccardAndSimilarNames ==
    /\ Scored("similarity_score") =>
           LET words1 == WordSet(input.name1)
               words2 == WordSet(input.name2)
               score == output.value
               swapped == similarity_score(input.name2, input.name1)
           IN  /\ score[2] > 0
               /\ score[1] * swapped[2] = swapped[1] * score[2]
               /\ 0 <= score[1] /\ score[1] <= score[2]
               /\ (words1 = {} \/ words2 = {}) => score[1] = 0
               /\ (words1 # {} /\ words2 # {}) =>
                      score[1] * Cardinality(words1 \cup words2)
                          = Cardinality(words1 \cap words2) * score[2]
               /\ score[1] = score[2] <=> (words1 = words2 /\ words1 # {})
    /\ Scored("similar_names") =>
           LET s1 == Squeezed(input.name1)
               s2 == Squeezed(input.name2)
           IN  /\ output.value = similar_names(input.name2, input.name1)
               /\ output.value <=>
                      \/ Contains(s1, s2) \/ Contains(s2, s1)
                      \/ Contains(s2, FirstFive(s1)) \/ Contains(s1, FirstFive(s2))

\* the score of a name and the same words in another order and other
\* letter cases is 1
C31_Witness ==
    /\ Scored("similarity_score")
    /\ input.name1 = <<"T","o","o","l","s"," ","A","C","M","E">> /\ input.name2 = <<"A","c","m","e"," ","T","o","o","l","s">>
    /\ output.value = <<2, 2>>

\* C32: the crawl of a company makes finitely many requests: every chain
\* of callbacks (search, company page, about page, website, contact page,
\* listing of the directory, about page of the social network) ends after a
\* bounded number of steps, and a state without a pending request is
\* reached and kept; the number of responses stays below ChainResponses,
\* which is therefore not what ends the run
C32_EveryChainEnds ==
    /\ <>[](started = Companies /\ \A c \in Companies : pending[c] = {})
    /\ [](delivered < ChainResponses)

\* the longest chain has been followed to its end: the website found on the
\* about page of LinkedIn has been fetched, and no request is pending
C32_Witness ==
    /\ started = Companies
    /\ \A c \in Companies : pending[c] = {}
    /\ \E c \in Companies : tried[c] = Strategies
    /\ delivered >= 12

\* the number of a tel: link as it is to be validated: +91 before a number
\* of ten digits that starts with 6 to 9, + in place of a leading 00, and a
\* + before any other number that has none
NormalizedTel(number) ==
    LET phone == Strip(number) IN
    IF StartsWith(phone, <<"+">>) THEN phone
    ELSE IF IsLocalMobile(phone) THEN <<"+","9","1">> \o phone
    ELSE IF StartsWith(phone, <<"0","0">>) THEN <<"+">> \o SubSeq(phone, 3, Len(phone))
    ELSE <<"+">> \o phone

\* C33: the number of a tel: link, found by extract_contacts_from_html on
\* the whole page or by extract_from_section in a section of it, is
\* normalized before it is validated: what the step keeps is what
\* clean_phone_number gives for the normalized number
C33_TelNormalizedEverywhere ==
    (output.returned /\ input.op \in {"tel", "section_tel"}) =>
        output.value = clean_phone_number(NormalizedTel(input.text))

\* a phone that stands in the window of an indicator of the text
NearIndicator(phone, content) == phone \in Range(HighConfidencePhones(content))

\* C34: in the list extract_phones_from_content returns, a phone near an
\* indicator never comes after a phone that is near none, and of two phones
\* of the same rank the longer never comes after the shorter
C34_NearFirstThenLonger ==
    (output.returned /\ input.op = "extract_phones_from_content") =>
        \A k \in 1..Len(output.value) : \A l \in 1..Len(output.value) :
            k < l =>
                /\ NearIndicator(output.value[l], input.text)
                       => NearIndicator(output.value[k], input.text)
                /\ (NearIndicator(output.value[k], input.text)
                        = NearIndicator(output.value[l], input.text))
                       => Len(output.value[k]) >= Len(output.value[l])

\* C35: when the listing of the directory shows a number that
\* validate_phone_number accepts in its phone widget and the record of the
\* company has no phone, the record has that number as its phone, with the
\* directory as its source, once parse_indiamart has handled the listing
C35_WidgetPhoneStored ==
    [][\A c \in Companies : \A req \in pending[c] \ pending'[c] :
          (/\ delivered' # delivered
           /\ req.callback = "parse_indiamart"
           /\ validate_phone_number(web.number)
           /\ ~HasPhone(results[c])) =>
              /\ results'[c] # Absent
              /\ results'[c].phone = web.number
              /\ results'[c].source = Label("indiamart", "")]_vars

\* C36: once extract_company_names has returned a list that is not empty for
\* a text, every later call with that text and force_api_call false returns
\* that list and does not call the model; a call with force_api_call true
\* calls the model; and no list stored in the cache is empty
C36_CachedNamesReused ==
    /\ [][/\ (~extraction'.force_api_call /\ named[extraction'.text] # {}) =>
                 /\ named[extraction'.text] = {extraction'.value}
                 /\ ~extraction'.asked
          /\ extraction'.force_api_call => extraction'.asked]_vars
    /\ [](\A k \in DOMAIN cache : cache[k] # <<>>)

\* C37: the mapping scrape_emails_with_selenium returns for a list of URLs
\* has the URLs of the list as its keys, each once, in whatever order the
\* futures are done and whether a call returns emails, returns none or
\* raises; and every driver that was made has been quit once by then, and is
\* never quit more than once
C37_OneKeyPerUrlDriversQuit ==
    /\ \A k \in DOMAIN drivers :
           drivers[k].made <= 1 /\ drivers[k].quits <= drivers[k].made
    /\ mapping.returned =>
           /\ DOMAIN mapping.value = Range(urls_or_url)
           /\ \A k \in DOMAIN drivers : drivers[k].quits = drivers[k].made

\* the call has returned for a list that holds a URL twice: the call of the
\* first future raised in setup_driver, the call of the second made a driver,
\* returned an address and quit the driver
C37_Witness ==
    /\ mapping.returned
    /\ Len(urls_or_url) = MaxUrls
    /\ urls_or_url[1] = urls_or_url[3]
    /\ urls_or_url[1] # urls_or_url[2]
    /\ futures[1].raised /\ drivers[1].made = 0
    /\ drivers[2].quits = 1 /\ ~futures[2].raised
    /\ mapping.value[urls_or_url[2]] = <<T_Sales>>
    /\ mapping.value[urls_or_url[1]] = <<>>

\* C38: when the run of a company has ended, every row of the output file
\* that was written for it holds the email and the phone its record holds:
\* no field of the record is set after the row is written
C38_RowMatchesRecord ==
    \A c \in DOMAIN results :
        (AllAnswered(c) /\ c \in saved) =>
            \A k \in 2..Len(rows) :
                rows[k].name = results[c].name =>
                    /\ rows[k].email = results[c].email
                    /\ rows[k].phone = results[c].phone

\* the states parse_indiamart_company and parse_facebook_about can end in
\* on the responses that can reach them now
CompanyPageOutcomes(c) ==
    UNION { parse_indiamart_company(Enter(results[c], c \in saved), resp, req, c) :
              req \in Due(c, "parse_indiamart_company"),
              resp \in Responses("parse_indiamart_company") }

AboutPageOutcomes(c) ==
    UNION { parse_facebook_about(Enter(results[c], c \in saved), resp, req, c) :
              req \in Due(c, "parse_facebook_about"),
              resp \in Responses("parse_facebook_about") }

\* C39: parse_indiamart_company and parse_facebook_about end without an
\* exception on every page that can reach them, and on a page that gives the
\* record no email and no phone they have still asked the generative model
C39_CompanyPagesNeverRaise ==
    \A c \in DOMAIN results :
        \A x \in CompanyPageOutcomes(c) \cup AboutPageOutcomes(c) :
            /\ ~x.raised
            /\ (~HasEmail(x.rec) /\ ~HasPhone(x.rec)) => x.gem.asked

====
